---- MODULE Spec2Model ----
(***************************************************************************)
(* CASIMAGE ETL: the record projector, the mapping synthesizer, the        *)
(* heuristic age/sex enrichment and the star-schema builder, modelled as   *)
(* state machines over small input domains.                                *)
(*                                                                         *)
(* Text is a sequence of one-character strings, so that parsing, regular   *)
(* expression matching and case folding are computed and not assumed.      *)
(***************************************************************************)
EXTENDS Integers, Sequences, FiniteSets, TLC

VARIABLES
    machine,    \* which component this behaviour runs
    pc,         \* position inside the running operation
    record,     \* projector: the RawRecord being projected
    mapping,    \* projector: the MappingSpec (sequence of columns)
    colIdx,     \* projector: index of the next column of the loop
    row,        \* projector: the ordered dict built so far
    raised,     \* the exception that escaped the operation, or "none"
    df,         \* star schema, enrichment: the input DataFrame
    tables,     \* star schema: the tables build_star_schema returns
    apiKey,     \* synthesizer: is OPENAI_API_KEY set
    summary,    \* synthesizer: the lines of the structure summary
    response,   \* synthesizer: what the delegated call did
    result,     \* synthesizer: the text ai_propose_mapping returns
    calls,      \* synthesizer: delegated calls made
    localRuns,  \* synthesizer: runs of _infer_types_from_samples
    cell,       \* enrichment: the cell given to extract_age_from_text
    erow,       \* enrichment: the row given to fix_age and fix_sex
    ageOut,     \* enrichment: the age returned
    sexOut,     \* enrichment: the sex returned
    cleaned,    \* enrichment: the frame apply_enhanced_cleaning returns
    xpathIn,    \* resolver: the path given to get_by_xpath
    found,      \* resolver: the node get_by_xpath returns
    sampleList, \* local inference: the (tag, value) samples
    inferred,   \* local inference: the JSON text returned
    rawRecords, \* pipeline: the records read from the XML files
    typedRows,  \* pipeline: the rows projected so far
    xmlTree,    \* summarizer: the parsed document, or Malformed
    maxNodes,   \* summarizer: the node budget
    walk,       \* summarizer: the pending calls of explore, next one first
    seen,       \* summarizer: seen[0]
    counts,     \* summarizer: the counts dict
    outline,    \* summarizer: the lines returned
    xmlFiles,   \* ingestion: the documents found in the archive
    fileIdx,    \* ingestion: the document the loop is at
    ingested,   \* ingestion: the list rows
    outcomes,   \* orchestrator: what each script does when it is launched
    stepIdx,    \* orchestrator: the step the run is at
    started     \* orchestrator: the scripts launched so far

vars == <<machine, pc, record, mapping, colIdx, row, raised, df, tables,
          apiKey, summary, response, result, calls, localRuns,
          cell, erow, ageOut, sexOut, cleaned,
          xpathIn, found, sampleList, inferred, rawRecords, typedRows,
          xmlTree, maxNodes, walk, seen, counts, outline,
          xmlFiles, fileIdx, ingested, outcomes, stepIdx, started>>

sumVars == <<xmlTree, maxNodes, walk, seen, counts, outline>>

SumIdle ==
    /\ xmlTree = <<>>
    /\ maxNodes = 0
    /\ walk = <<>>
    /\ seen = 0
    /\ counts = <<>>
    /\ outline = <<>>

ingestVars == <<xmlFiles, fileIdx, ingested>>

IngestIdle ==
    /\ xmlFiles = <<>>
    /\ fileIdx = 0
    /\ ingested = <<>>

orchVars == <<outcomes, stepIdx, started>>

OrchIdle ==
    /\ outcomes = <<>>
    /\ stepIdx = 0
    /\ started = <<>>

lastVars == <<sumVars, ingestVars, orchVars>>

LastIdle == SumIdle /\ IngestIdle /\ OrchIdle

laterVars == <<xpathIn, found, sampleList, inferred, rawRecords, typedRows>>

LaterIdle ==
    /\ xpathIn = <<>>
    /\ found = <<>>
    /\ sampleList = <<>>
    /\ inferred = <<>>
    /\ rawRecords = <<>>
    /\ typedRows = <<>>

enrichVars == <<cell, erow, ageOut, sexOut, cleaned>>

EnrichIdle ==
    /\ cell = <<>>
    /\ erow = <<>>
    /\ ageOut = 0
    /\ sexOut = ""
    /\ cleaned = <<>>

synthVars == <<apiKey, summary, response, result, calls, localRuns>>

SynthIdle ==
    /\ apiKey = FALSE
    /\ summary = <<>>
    /\ response = <<>>
    /\ result = <<>>
    /\ calls = 0
    /\ localRuns = 0

projVars == <<record, mapping, colIdx, row>>

starVars == <<df, tables>>

-----------------------------------------------------------------------------
(* Generic sequence helpers *)

Range(s) == {s[i] : i \in DOMAIN s}

SeqsUpTo(S, n) == UNION {[1..k -> S] : k \in 0..n}

NonEmptySeqsUpTo(S, n) == UNION {[1..k -> S] : k \in 1..n}

RECURSIVE Flatten(_)
Flatten(ss) == IF ss = <<>> THEN <<>> ELSE Head(ss) \o Flatten(Tail(ss))

\* s[i..j] (empty when j < i)
Slice(s, i, j) == IF j < i THEN <<>> ELSE SubSeq(s, i, j)

\* does the literal lit occur in t starting at position i
OccursAt(t, lit, i) ==
    /\ i >= 1
    /\ i + Len(lit) - 1 <= Len(t)
    /\ Slice(t, i, i + Len(lit) - 1) = lit

\* Python's `lit in t`
Contains(t, lit) == \E i \in 1..(Len(t) + 1) : OccursAt(t, lit, i)

-----------------------------------------------------------------------------
(* Characters *)

\* the two characters of the tables outside Latin-1, ’ (U+2019) and the
\* ligature oe (U+0153), are written as atoms
RSquo == "U+2019"

OELig == "U+0153"

Digits == {"0", "1", "2", "3", "4", "5", "6", "7", "8", "9"}

UpperLetters == {"A", "D", "E", "F", "G", "I", "L", "M", "N", "S", "X"}

LowerLetters == {"a", "b", "c", "d", "e", "f", "g", "h", "i", "j", "k", "l",
                 "m", "n", "o", "p", "q", "r", "s", "t", "u", "v", "w", "x",
                 "y", "z", "é", "è", "ç", OELig}

\* characters \s matches
SpaceChars == {" ", "\t", "\n"}

\* characters [\x00-\x1F\x7F-\x9F] matches
ControlChars == {"\t", "\n"}

\* characters \w matches
WordChars == Digits \cup UpperLetters \cup LowerLetters \cup {"_"}

\* characters [A-Za-z0-9_] matches
AsciiWordChars == WordChars \ {"é", "è", "ç", OELig}

DigitVal(c) ==
    CASE c = "0" -> 0 [] c = "1" -> 1 [] c = "2" -> 2 [] c = "3" -> 3
      [] c = "4" -> 4 [] c = "5" -> 5 [] c = "6" -> 6 [] c = "7" -> 7
      [] c = "8" -> 8 [] c = "9" -> 9

\* str.lower() on one character
LowerChar(c) ==
    CASE c = "A" -> "a" [] c = "D" -> "d" [] c = "E" -> "e" [] c = "F" -> "f"
      [] c = "G" -> "g" [] c = "I" -> "i" [] c = "L" -> "l" [] c = "M" -> "m"
      [] c = "N" -> "n" [] c = "S" -> "s" [] c = "X" -> "x" [] OTHER -> c

\* str.upper() on one character
UpperChar(c) ==
    CASE c = "a" -> "A" [] c = "d" -> "D" [] c = "e" -> "E" [] c = "f" -> "F"
      [] c = "g" -> "G" [] c = "i" -> "I" [] c = "l" -> "L" [] c = "m" -> "M"
      [] c = "n" -> "N" [] c = "s" -> "S" [] c = "x" -> "X" [] OTHER -> c

Lower(t) == [i \in DOMAIN t |-> LowerChar(t[i])]

Upper(t) == [i \in DOMAIN t |-> UpperChar(t[i])]

RECURSIVE LStrip(_, _)
LStrip(t, S) == IF t # <<>> /\ Head(t) \in S THEN LStrip(Tail(t), S) ELSE t

RECURSIVE RStrip(_, _)
RStrip(t, S) ==
    IF t # <<>> /\ t[Len(t)] \in S THEN RStrip(Slice(t, 1, Len(t) - 1), S) ELSE t

\* str.strip() with the given character set
StripChars(t, S) == RStrip(LStrip(t, S), S)

\* str.strip()
Strip(t) == StripChars(t, SpaceChars)

RECURSIVE DigitsValue(_, _)
DigitsValue(t, acc) ==
    IF t = <<>> THEN acc
    ELSE IF Head(t) = "_" THEN DigitsValue(Tail(t), acc)
    ELSE DigitsValue(Tail(t), 10 * acc + DigitVal(Head(t)))

-----------------------------------------------------------------------------
(* Typed scalars: one shape for None, int, float and str values *)

NoneVal == [t |-> "none", n |-> 0, s |-> <<>>]

IntVal(n) == [t |-> "int", n |-> n, s |-> <<>>]

\* a float is kept as its signed integer part and its fraction digits
FloatVal(n, frac) == [t |-> "float", n |-> n, s |-> frac]

StrVal(s) == [t |-> "str", n |-> 0, s |-> s]

\* the digit groups of a Python numeric literal: digits, single underscores
\* allowed between two digits
IsDigitGroup(b) ==
    /\ b # <<>>
    /\ \A i \in DOMAIN b : b[i] \in Digits \cup {"_"}
    /\ b[1] # "_"
    /\ b[Len(b)] # "_"
    /\ \A i \in 1..(Len(b) - 1) : ~(b[i] = "_" /\ b[i + 1] = "_")

Unsigned(b) == IF b # <<>> /\ Head(b) \in {"+", "-"} THEN Tail(b) ELSE b

Negative(b) == b # <<>> /\ Head(b) = "-"

\* int(val) for a str: surrounding whitespace stripped, optional sign, digits
IntParses(t) == IsDigitGroup(Unsigned(Strip(t)))

IntParse(t) ==
    LET b == Strip(t)
        v == DigitsValue(Unsigned(b), 0)
    IN  IF Negative(b) THEN 0 - v ELSE v

DotAt(b) == IF \E i \in DOMAIN b : b[i] = "."
            THEN CHOOSE i \in DOMAIN b : b[i] = "." /\ \A j \in 1..(i - 1) : b[j] # "."
            ELSE 0

\* float(val) for a str: [sign] digits [. [digits]] | [sign] . digits | nan | inf
\* (no exponent character is in the alphabet of the model)
FloatParses(t) ==
    LET b == Unsigned(Strip(t))
        d == DotAt(b)
        ip == IF d = 0 THEN b ELSE Slice(b, 1, d - 1)
        fp == IF d = 0 THEN <<>> ELSE Slice(b, d + 1, Len(b))
    IN  \/ Lower(b) \in {<<"n", "a", "n">>, <<"i", "n", "f">>}
        \/ /\ ip = <<>> \/ IsDigitGroup(ip)
           /\ fp = <<>> \/ IsDigitGroup(fp)
           /\ ip # <<>> \/ fp # <<>>

FloatParse(t) ==
    LET s0 == Strip(t)
        b == Unsigned(s0)
        d == DotAt(b)
        ip == IF d = 0 THEN b ELSE Slice(b, 1, d - 1)
        fp == IF d = 0 THEN <<>> ELSE Slice(b, d + 1, Len(b))
    IN  IF Lower(b) \in {<<"n", "a", "n">>, <<"i", "n", "f">>}
        THEN FloatVal(IF Negative(s0) THEN -1 ELSE 1, Lower(b))
        ELSE FloatVal(IF Negative(s0) THEN 0 - DigitsValue(ip, 0) ELSE DigitsValue(ip, 0),
                      RStrip(SelectSeq(fp, LAMBDA c : c # "_"), {"0"}))

-----------------------------------------------------------------------------
(* RawRecord: what xmltodict builds. One record shape for every variant:   *)
(* a str, None (an empty element), a list, or a dict whose items are        *)
(* <<key, node>> pairs in insertion order.                                  *)

Scalar(t) == [kind |-> "scalar", text |-> t, items |-> <<>>]

NoneNode == [kind |-> "none", text |-> <<>>, items |-> <<>>]

ListNode(xs) == [kind |-> "list", text |-> <<>>,
                 items |-> [i \in DOMAIN xs |-> <<<<>>, xs[i]>>]]

MapNode(entries) == [kind |-> "map", text |-> <<>>, items |-> entries]

\* current[0] if current else None
FirstOrNone(node) == IF node.items = <<>> THEN NoneNode ELSE node.items[1][2]

\* [k for k in xpath.strip("/").split("/") if k]
RECURSIVE SplitSlash(_, _)
SplitSlash(t, cur) ==
    IF t = <<>> THEN <<cur>>
    ELSE IF Head(t) = "/" THEN <<cur>> \o SplitSlash(Tail(t), <<>>)
    ELSE SplitSlash(Tail(t), Append(cur, Head(t)))

PathKeys(xpath) ==
    SelectSeq(SplitSlash(StripChars(xpath, {"/"}), <<>>), LAMBDA k : k # <<>>)

\* the key comparison without .lower() on either side
RECURSIVE FirstMatchExact(_, _)
FirstMatchExact(items, key) ==
    IF items = <<>> THEN NoneNode
    ELSE IF Head(items)[1] = key THEN Head(items)[2]
    ELSE FirstMatchExact(Tail(items), key)

\* next((v for k2, v in current.items() if k2.lower() == key.lower()), None)
RECURSIVE FirstMatch(_, _)
FirstMatch(items, key) ==
    IF items = <<>> THEN NoneNode
    ELSE IF Lower(Head(items)[1]) = Lower(key) THEN Head(items)[2]
    ELSE FirstMatch(Tail(items), key)

\* the for loop of get_by_xpath without the final list unwrapping
RECURSIVE WalkKeepList(_, _)
WalkKeepList(current, keys) ==
    IF keys = <<>> THEN current
    ELSE LET cur == IF current.kind = "list" THEN FirstOrNone(current) ELSE current
         IN  IF cur.kind # "map" THEN NoneNode
             ELSE LET next_val == FirstMatch(cur.items, Head(keys))
                  IN  IF next_val.kind = "none" THEN NoneNode
                      ELSE WalkKeepList(next_val, Tail(keys))

\* the for loop of get_by_xpath and the final list unwrapping
RECURSIVE Walk(_, _)
Walk(current, keys) ==
    IF keys = <<>>
    THEN IF current.kind = "list" THEN FirstOrNone(current) ELSE current
    ELSE LET cur == IF current.kind = "list" THEN FirstOrNone(current) ELSE current
         IN  IF cur.kind # "map" THEN NoneNode
             ELSE LET next_val == FirstMatch(cur.items, Head(keys))
                  IN  IF next_val.kind = "none" THEN NoneNode
                      ELSE Walk(next_val, Tail(keys))

get_by_xpath(node, xpath) == Walk(node, PathKeys(xpath))

\* str(raw): the text of a str; the repr of a dict or a list starts with its
\* bracket, which is all the later conversions can see of it
Str(raw) ==
    CASE raw.kind = "scalar" -> raw.text
      [] raw.kind = "map" -> <<"{", "}">>
      [] raw.kind = "list" -> <<"[", "]">>

-----------------------------------------------------------------------------
(* apply_mapping_to_record *)

Column(name, typ, xp) == [name |-> name, type |-> typ, source_xpath |-> xp]

\* row[name] = value on a Python dict: an existing key keeps its position
DictSet(d, k, v) ==
    IF \E i \in DOMAIN d : d[i][1] = k
    THEN [i \in DOMAIN d |-> IF d[i][1] = k THEN <<k, v>> ELSE d[i]]
    ELSE Append(d, <<k, v>>)

DictKeys(d) == [i \in DOMAIN d |-> d[i][1]]

DictHas(d, k) == \E i \in DOMAIN d : d[i][1] = k

DictGet(d, k) == d[CHOOSE i \in DOMAIN d : d[i][1] = k][2]

\* does the body of the try block raise for this column
CoercionRaises(typ, val) ==
    /\ val.t # "none"
    /\ \/ typ = "int" /\ ~IntParses(val.s)
       \/ typ = "float" /\ ~FloatParses(val.s)

\* the value the try block stores when it does not raise
Coerced(typ, val) ==
    IF val.t = "none" THEN NoneVal
    ELSE IF typ = "int" THEN IntVal(IntParse(val.s))
    ELSE IF typ = "float" THEN FloatParse(val.s)
    ELSE val

\* raw = get_by_xpath(record, xp) if xp else None; val = str(raw) or None
Extracted(rec, xp) ==
    LET raw == IF xp # <<>> THEN get_by_xpath(rec, xp) ELSE NoneNode
    IN  IF raw.kind = "none" THEN NoneVal ELSE StrVal(Str(raw))

\* one iteration of the column loop: the new row and the exception that
\* leaves the loop body, if any
ColumnStepNoExcept(rec, col, r) ==
    LET val == Extracted(rec, col.source_xpath)
    IN  IF CoercionRaises(col.type, val)
        THEN [row |-> r, raised |-> "ValueError"]
        ELSE [row |-> DictSet(r, col.name, Coerced(col.type, val)), raised |-> "none"]

\* the column loop with the except branch leaving the column out of the row
ColumnStepSkip(rec, col, r) ==
    LET val == Extracted(rec, col.source_xpath)
    IN  IF CoercionRaises(col.type, val)
        THEN [row |-> r, raised |-> "none"]
        ELSE [row |-> DictSet(r, col.name, Coerced(col.type, val)), raised |-> "none"]

ColumnStep(rec, col, r) ==
    LET val == Extracted(rec, col.source_xpath)
    IN  IF CoercionRaises(col.type, val)
        THEN [row |-> DictSet(r, col.name, NoneVal), raised |-> "none"]
        ELSE [row |-> DictSet(r, col.name, Coerced(col.type, val)), raised |-> "none"]

\* the column loop of apply_mapping_to_record, from row r on
RECURSIVE ProjectFrom(_, _, _)
ProjectFrom(rec, cols, r) ==
    IF cols = <<>> THEN r
    ELSE ProjectFrom(rec, Tail(cols), ColumnStep(rec, Head(cols), r).row)

apply_mapping_to_record(rec, m) == ProjectFrom(rec, m.columns, <<>>)

-----------------------------------------------------------------------------
(* Inputs of the projector *)

MaxCols == 2

T_age == <<"a", "g", "e">>
T_Age == <<"A", "g", "e">>
T_ID == <<"I", "D">>
T_id == <<"i", "d">>
T_x == <<"x">>
T_45 == <<"4", "5">>
T_34ans == <<"3", "4", " ", "a", "n", "s">>
T_3p50 == <<"3", ".", "5", "0">>
T_m7 == <<" ", "-", "7">>

\* the values a key of the record can carry
NodePool ==
    { Scalar(T_45), Scalar(T_34ans), Scalar(T_m7), NoneNode,
      ListNode(<<Scalar(T_3p50), Scalar(T_45)>>), ListNode(<<>>),
      MapNode(<<<<T_x, Scalar(T_3p50)>>>>) }

KeyPool == {T_Age, T_age, T_ID}

\* dicts have distinct keys
DistinctKeys(e) == \A i, j \in DOMAIN e : i # j => e[i][1] # e[j][1]

ColumnPool ==
    { Column(T_age, "int", <<"/", "/">> \o T_age),
      Column(T_age, "string", <<"/">> \o T_Age \o <<"/">>),
      Column(T_id, "float", <<"/">> \o T_id \o <<"/", "/", "X">>),
      Column(T_id, "int", <<"/", "/">> \o T_ID),
      Column(T_x, "date", <<"/">> \o T_age),
      Column(T_x, "float", <<>>) }

\* MappingSpec: column names unique
DistinctNames(c) == \A i, j \in DOMAIN c : i # j => c[i].name # c[j].name

-----------------------------------------------------------------------------
(* The projector as a state machine: one step per column of the loop *)

Idle == <<>>

InitProject ==
    /\ machine = "project"
    /\ pc = "loop"
    /\ \E n \in 0..Cardinality(KeyPool) :
          \E e \in [1..n -> KeyPool \X NodePool] :
             DistinctKeys(e) /\ record = MapNode(e)
    /\ \E n \in 0..MaxCols :
          \E c \in [1..n -> ColumnPool] :
             DistinctNames(c) /\ mapping = [target_table |-> <<"t">>, columns |-> c]
    /\ colIdx = 1
    /\ row = <<>>
    /\ raised = "none"
    /\ df = Idle
    /\ tables = Idle
    /\ SynthIdle
    /\ LaterIdle
    /\ LastIdle
    /\ EnrichIdle

\* for col in mapping.get("columns", []): ...
ProjectColumn ==
    /\ machine = "project"
    /\ pc = "loop"
    /\ colIdx <= Len(mapping.columns)
    /\ LET out == ColumnStep(record, mapping.columns[colIdx], row)
       IN  /\ row' = out.row
           /\ raised' = out.raised
           /\ pc' = IF out.raised = "none" THEN "loop" ELSE "raised"
    /\ colIdx' = colIdx + 1
    /\ UNCHANGED <<machine, record, mapping, starVars, synthVars, laterVars, lastVars, enrichVars>>

\* return row
ProjectReturn ==
    /\ machine = "project"
    /\ pc = "loop"
    /\ colIdx > Len(mapping.columns)
    /\ pc' = "done"
    /\ UNCHANGED <<machine, projVars, raised, starVars, synthVars, laterVars, lastVars, enrichVars>>

NextProject == ProjectColumn \/ ProjectReturn

SpecProject == InitProject /\ [][NextProject]_vars

-----------------------------------------------------------------------------
(* C1: apply_mapping_to_record never raises, and the row it returns has    *)
(* exactly the column names of the MappingSpec as keys, one per column, in *)
(* MappingSpec order, whatever the shape of the record.                    *)

ColumnNames(m) == [i \in DOMAIN m.columns |-> m.columns[i].name]

C1_TotalShape ==
    machine = "project" =>
        /\ raised = "none"
        /\ pc # "raised"
        /\ DictKeys(row) = Slice(ColumnNames(mapping), 1, colIdx - 1)
        /\ pc = "done" => DictKeys(row) = ColumnNames(mapping)

\* a finished projection of two columns where one path misses and the
\* other resolves to a value its declared type cannot parse
C1_Witness ==
    /\ machine = "project"
    /\ pc = "done"
    /\ Len(mapping.columns) = 2
    /\ \E i \in DOMAIN mapping.columns :
          get_by_xpath(record, mapping.columns[i].source_xpath).kind = "none"
    /\ \E i \in DOMAIN mapping.columns :
          CoercionRaises(mapping.columns[i].type,
                         Extracted(record, mapping.columns[i].source_xpath))

ProjectDone == machine = "project" /\ pc = "done"

\* the path of the column misses in the record
PathMisses(col) ==
    col.source_xpath = <<>> \/ get_by_xpath(record, col.source_xpath).kind = "none"

ResolvedText(col) == Str(get_by_xpath(record, col.source_xpath))

\* the value is there and its declared int or float type cannot parse it
Unparsable(col) ==
    /\ ~PathMisses(col)
    /\ \/ col.type = "int" /\ ~IntParses(ResolvedText(col))
       \/ col.type = "float" /\ ~FloatParses(ResolvedText(col))

\* the mapping without its column i
WithoutColumn(m, i) ==
    [m EXCEPT !.columns = [j \in 1..(Len(m.columns) - 1) |->
                              IF j < i THEN m.columns[j] ELSE m.columns[j + 1]]]

(* C22: in the row apply_mapping_to_record returns, a column whose path    *)
(* misses is null, a column whose value is present but unparsable for its  *)
(* declared int or float type is null, a date or string column whose path  *)
(* resolves carries the resolved text unchanged, and every other column    *)
(* has the value it has when the missing or unparsable column is not part  *)
(* of the mapping at all.                                                  *)
C22_NullAndRowContinues ==
    ProjectDone =>
        \A i \in DOMAIN mapping.columns :
            LET col == mapping.columns[i]
            IN  /\ DictHas(row, col.name)
                /\ PathMisses(col) => DictGet(row, col.name) = NoneVal
                /\ Unparsable(col) => DictGet(row, col.name) = NoneVal
                /\ (~PathMisses(col) /\ col.type \in {"date", "string"})
                      => DictGet(row, col.name) = StrVal(ResolvedText(col))
                /\ (PathMisses(col) \/ Unparsable(col)) =>
                      \A j \in DOMAIN mapping.columns \ {i} :
                          LET rest == apply_mapping_to_record(record, WithoutColumn(mapping, i))
                              name == mapping.columns[j].name
                          IN  DictHas(rest, name) /\ DictGet(rest, name) = DictGet(row, name)

\* the int column holds "34 ans" and is null, the date column after it
\* carries the same text unchanged
C22_Witness ==
    /\ ProjectDone
    /\ Len(mapping.columns) = 2
    /\ mapping.columns[1].type = "int"
    /\ ~PathMisses(mapping.columns[1])
    /\ ResolvedText(mapping.columns[1]) = T_34ans
    /\ DictGet(row, mapping.columns[1].name) = NoneVal
    /\ mapping.columns[2].type = "date"
    /\ DictGet(row, mapping.columns[2].name) = StrVal(T_34ans)

-----------------------------------------------------------------------------
(* DataFrames: a set of column names, the index labels and the rows, each  *)
(* row a function from the column names to values. A missing value is NaN. *)

NaN == "NaN"

\* the PatientKey / ExamKey / PathologyKey a left merge gives an unmatched row
NaNKey == 0

Frame(cols, index, rows) == [columns |-> cols, index |-> index, rows |-> rows]

RangeIndex(n) == [i \in 1..n |-> i - 1]

\* df[cols] on the rows
Project(rows, cols) == [i \in DOMAIN rows |-> [c \in cols |-> rows[i][c]]]

\* pandas compares keys with missing values equal to each other, in
\* drop_duplicates and in merge alike
SqlValueEq(a, b) == a # NaN /\ a = b

ValueEq(a, b) == a = b

TupleEq(r1, r2, cols) == \A c \in cols : ValueEq(r1[c], r2[c])

\* DataFrame.drop_duplicates().reset_index(drop=True): first occurrences, in order
RECURSIVE DropDuplicatesFrom(_, _, _)
DropDuplicatesFrom(rows, cols, kept) ==
    IF rows = <<>> THEN kept
    ELSE IF \E i \in DOMAIN kept : TupleEq(kept[i], Head(rows), cols)
         THEN DropDuplicatesFrom(Tail(rows), cols, kept)
         ELSE DropDuplicatesFrom(Tail(rows), cols, Append(kept, Head(rows)))

DropDuplicates(rows, cols) == DropDuplicatesFrom(rows, cols, <<>>)

\* dim.insert(0, key, 1): every row of the table gets the key 1
InsertSameKey(rows, key) ==
    [i \in DOMAIN rows |->
        [c \in DOMAIN rows[i] \cup {key} |-> IF c = key THEN 1 ELSE rows[i][c]]]

\* dim.insert(0, key, dim.index + 1)
InsertKey(rows, key) ==
    [i \in DOMAIN rows |->
        [c \in DOMAIN rows[i] \cup {key} |-> IF c = key THEN i ELSE rows[i][c]]]

\* the rows df.merge(dim, on=cols, how="left") gives for one left row: one
\* per matching row of dim, in dim order, or the left row with a missing key
MatchesOf(r, dim, cols, key) ==
    LET hits == SelectSeq(dim, LAMBDA d : TupleEq(r, d, cols))
    IN  IF hits = <<>>
        THEN << [c \in DOMAIN r \cup {key} |-> IF c = key THEN NaNKey ELSE r[c]] >>
        ELSE [i \in DOMAIN hits |->
                [c \in DOMAIN r \cup {key} |-> IF c = key THEN hits[i][key] ELSE r[c]]]

\* an inner merge in which a missing value matches nothing: the left rows
\* with a missing attribute are lost
MergeInner(rows, dim, cols, key) ==
    Flatten([i \in DOMAIN rows |->
                IF \E c \in cols : rows[i][c] = NaN THEN <<>>
                ELSE MatchesOf(rows[i], dim, cols, key)])

MergeLeft(rows, dim, cols, key) ==
    Flatten([i \in DOMAIN rows |-> MatchesOf(rows[i], dim, cols, key)])

-----------------------------------------------------------------------------
(* build_star_schema *)

PatientGroup == {"Sex", "Age", "Birthdate", "AgeGroup"}

ExamGroup == {"Date", "Year", "Hospital", "Department"}

PathologyGroup == {"Diagnosis", "Chapter", "Description", "KeyWords", "Anatomy", "Title"}

FactOnlyColumns == {"SourceFile", "ClinicalPresentation", "Commentary"}

FactColumns ==
    {"CaseNaturalKey", "PatientKey", "ExamKey", "PathologyKey"} \cup FactOnlyColumns

\* str(label) of an index label
IndexText(n) == CASE n = 0 -> "0" [] n = 1 -> "1" [] n = 2 -> "2" [] n = 3 -> "3"
                  [] n = 4 -> "4" [] n = 5 -> "5" [] OTHER -> "6"

\* df["CaseNaturalKey"] = df.get("ID", df.index).astype(str)
WithNaturalKey(d) ==
    [i \in DOMAIN d.rows |->
        [c \in d.columns \cup {"CaseNaturalKey"} |->
            IF c = "CaseNaturalKey"
            THEN IF "ID" \in d.columns THEN d.rows[i]["ID"] ELSE IndexText(d.index[i])
            ELSE d.rows[i][c]]]

\* the key column filled with dim.index, without the + 1
DimensionZeroBased(rows, cols, key) ==
    LET dim == DropDuplicates(Project(rows, cols), cols)
    IN  [i \in DOMAIN dim |->
            [c \in DOMAIN dim[i] \cup {key} |-> IF c = key THEN i - 1 ELSE dim[i][c]]]

\* dim = df[cols].drop_duplicates().reset_index(drop=True); dim.insert(0, key, ...)
Dimension(rows, cols, key) == InsertKey(DropDuplicates(Project(rows, cols), cols), key)

\* the fact table without drop_duplicates()
FactTableNoDedup(rows) == InsertKey(Project(rows, FactColumns), "FactCaseKey")

\* fact_case = df[[...]].drop_duplicates().reset_index(drop=True); insert key
FactTable(rows) ==
    InsertKey(DropDuplicates(Project(rows, FactColumns), FactColumns), "FactCaseKey")

\* the whole function: the exception it raises (a merge on no column raises,
\* and so does selecting an absent fact column), or the four tables together
\* with the working frame after the three merges
build_star_schema(d) ==
    LET patient_cols == PatientGroup \cap d.columns
        exam_cols == ExamGroup \cap d.columns
        path_cols == PathologyGroup \cap d.columns
        df0 == WithNaturalKey(d)
        dim_patient == Dimension(df0, patient_cols, "PatientKey")
        df1 == MergeLeft(df0, dim_patient, patient_cols, "PatientKey")
        dim_exam == Dimension(df1, exam_cols, "ExamKey")
        df2 == MergeLeft(df1, dim_exam, exam_cols, "ExamKey")
        dim_path == Dimension(df2, path_cols, "PathologyKey")
        df3 == MergeLeft(df2, dim_path, path_cols, "PathologyKey")
        fact_case == FactTable(df3)
    IN  IF patient_cols = {} \/ exam_cols = {} \/ path_cols = {}
        THEN [raised |-> "MergeError", tables |-> Idle]
        ELSE IF ~(FactOnlyColumns \subseteq d.columns)
        THEN [raised |-> "KeyError", tables |-> Idle]
        ELSE [raised |-> "none",
              tables |-> [DimPatient |-> dim_patient, DimExam |-> dim_exam,
                          DimPathology |-> dim_path, FactCase |-> fact_case,
                          joined |-> df3]]

-----------------------------------------------------------------------------
(* Inputs of build_star_schema *)

MaxRows == 2

AllStarColumns ==
    {"ID", "Sex", "Age", "Date", "Diagnosis",
     "SourceFile", "ClinicalPresentation", "Commentary"}

\* the column sets of the input: every column, no ID, a dimension group
\* partly absent, a dimension group wholly absent, a fact column absent
StarColumnSets ==
    { AllStarColumns,
      AllStarColumns \ {"ID"},
      AllStarColumns \ {"Sex"},
      AllStarColumns \ {"Sex", "Age"},
      AllStarColumns \ {"Commentary"} }

StarRows(cols) ==
    { [c \in cols |->
          CASE c = "ID" -> id [] c = "Sex" -> sex [] c = "Age" -> age
            [] c = "Date" -> date [] c = "Diagnosis" -> diag [] OTHER -> "text"] :
        id \in {"1", "2"}, sex \in {NaN, "M"}, age \in {NaN, "30"},
        date \in {NaN, "2001-02-03"}, diag \in {"fracture", "tumeur"} }

\* index labels left by an earlier row filter: increasing, not always 0..n-1
StarIndexes(n) ==
    {ix \in [1..n -> 0..n] : \A i, j \in 1..n : i < j => ix[i] < ix[j]}

InitStar ==
    /\ machine = "star"
    /\ pc = "start"
    /\ \E cols \in StarColumnSets, n \in 0..MaxRows :
          \E rows \in [1..n -> StarRows(cols)],
             ix \in IF "ID" \in cols THEN {RangeIndex(n)} ELSE StarIndexes(n) :
             df = Frame(cols, ix, rows)
    /\ tables = Idle
    /\ raised = "none"
    /\ record = Idle
    /\ mapping = Idle
    /\ colIdx = 0
    /\ row = Idle
    /\ SynthIdle
    /\ LaterIdle
    /\ LastIdle
    /\ EnrichIdle

\* star = build_star_schema(df)
BuildStarSchema ==
    /\ machine = "star"
    /\ pc = "start"
    /\ LET out == build_star_schema(df)
       IN  /\ tables' = out.tables
           /\ raised' = out.raised
           /\ pc' = IF out.raised = "none" THEN "done" ELSE "raised"
    /\ UNCHANGED <<machine, df, projVars, synthVars, laterVars, lastVars, enrichVars>>

NextStar == BuildStarSchema

SpecStar == InitStar /\ [][NextStar]_vars

StarDone == machine = "star" /\ pc = "done"

\* the source rows with their natural key (the frame the dimensions are cut from)
SourceRows == WithNaturalKey(df)

\* the rows of a table whose key column has the given value
WithKeyValue(table, key, k) == {i \in DOMAIN table : table[i][key] = k}

\* fact row f refers, through key, to exactly one row of dim, and that row
\* carries the attributes of source row r over the group's present columns
RefersTo(f, r, dim, key, group) ==
    /\ f[key] # NaNKey
    /\ \E i \in DOMAIN dim :
          /\ dim[i][key] = f[key]
          /\ \A c \in group \cap df.columns : dim[i][c] = r[c]

FactOf(f, r) ==
    /\ f["CaseNaturalKey"] = r["CaseNaturalKey"]
    /\ \A c \in FactOnlyColumns : f[c] = r[c]
    /\ RefersTo(f, r, tables.DimPatient, "PatientKey", PatientGroup)
    /\ RefersTo(f, r, tables.DimExam, "ExamKey", ExamGroup)
    /\ RefersTo(f, r, tables.DimPathology, "PathologyKey", PathologyGroup)

(* C2: every FactCase row's PatientKey, ExamKey and PathologyKey is non-null *)
(* and is the surrogate key of an existing row of its dimension, and that   *)
(* row carries exactly the attribute tuple of the source row, null          *)
(* attributes included: every fact row comes from a source row this way and *)
(* every source row has such a fact row.                                    *)
C2_JoinTotal ==
    StarDone =>
        /\ \A i \in DOMAIN tables.FactCase :
              \E j \in DOMAIN SourceRows : FactOf(tables.FactCase[i], SourceRows[j])
        /\ \A j \in DOMAIN SourceRows :
              \E i \in DOMAIN tables.FactCase : FactOf(tables.FactCase[i], SourceRows[j])

\* two rows with a missing Sex, a missing Age and a missing Date were joined
C2_Witness ==
    /\ StarDone
    /\ Len(df.rows) = 2
    /\ \A i \in DOMAIN df.rows :
          df.rows[i]["Sex"] = NaN /\ df.rows[i]["Age"] = NaN /\ df.rows[i]["Date"] = NaN
    /\ Len(tables.FactCase) = 2

\* the key column of the working frame after the merges, per source row
SameKeyIffSameTuple(dim, key, group) ==
    LET cols == group \cap df.columns
    IN  /\ Len(tables.joined) = Len(df.rows)
        /\ \A i, j \in DOMAIN df.rows :
              (tables.joined[i][key] = tables.joined[j][key])
                  <=> (\A c \in cols : df.rows[i][c] = df.rows[j][c])
        /\ \A i, j \in DOMAIN dim :
              (\A c \in cols : dim[i][c] = dim[j][c]) => i = j

(* C3: in each dimension table two source rows receive the same surrogate  *)
(* key if and only if their attribute tuples over the group's columns are  *)
(* equal, null equal to null, and no two dimension rows carry the same     *)
(* attribute tuple.                                                         *)
C3_DedupInjective ==
    StarDone =>
        /\ SameKeyIffSameTuple(tables.DimPatient, "PatientKey", PatientGroup)
        /\ SameKeyIffSameTuple(tables.DimExam, "ExamKey", ExamGroup)
        /\ SameKeyIffSameTuple(tables.DimPathology, "PathologyKey", PathologyGroup)

\* two rows equal on (Sex, Age) with a missing Sex share one DimPatient row
\* while their diagnoses differ
C3_Witness ==
    /\ StarDone
    /\ Len(df.rows) = 2
    /\ df.rows[1]["Sex"] = NaN /\ df.rows[2]["Sex"] = NaN
    /\ df.rows[1]["Age"] = df.rows[2]["Age"]
    /\ df.rows[1]["Diagnosis"] # df.rows[2]["Diagnosis"]
    /\ Len(tables.DimPatient) = 1
    /\ Len(tables.DimPathology) = 2

\* the position of the first source row that carries the tuple of dim row i
FirstSeen(dim, i, cols) ==
    CHOOSE j \in DOMAIN df.rows :
        /\ \A c \in cols : df.rows[j][c] = dim[i][c]
        /\ \A m \in 1..(j - 1) : \E c \in cols : df.rows[m][c] # dim[i][c]

KeysInFirstSeenOrder(dim, key, group) ==
    LET cols == group \cap df.columns
        tuples == {[c \in cols |-> df.rows[j][c]] : j \in DOMAIN df.rows}
    IN  /\ Len(dim) = Cardinality(tuples)
        /\ \A i \in DOMAIN dim :
              /\ dim[i][key] = i
              /\ [c \in cols |-> dim[i][c]] \in tuples
        /\ \A i, j \in DOMAIN dim :
              i < j => FirstSeen(dim, i, cols) < FirstSeen(dim, j, cols)

(* C16: in every dimension table the surrogate keys are exactly 1..k for k *)
(* distinct attribute tuples, and they are assigned in first-seen order    *)
(* over the input rows: the tuple that first appears at an earlier input   *)
(* row has the smaller key.                                                *)
C16_KeysFirstSeen ==
    StarDone =>
        /\ KeysInFirstSeenOrder(tables.DimPatient, "PatientKey", PatientGroup)
        /\ KeysInFirstSeenOrder(tables.DimExam, "ExamKey", ExamGroup)
        /\ KeysInFirstSeenOrder(tables.DimPathology, "PathologyKey", PathologyGroup)

\* two rows with different patients: the patient of the first row has key 1
C16_Witness ==
    /\ StarDone
    /\ Len(df.rows) = 2
    /\ df.rows[1]["Age"] = "30" /\ df.rows[2]["Age"] = NaN
    /\ Len(tables.DimPatient) = 2
    /\ tables.DimPatient[1]["Age"] = "30"
    /\ tables.DimPatient[1]["PatientKey"] = 1
    /\ tables.DimPatient[2]["PatientKey"] = 2

StarEnded == machine = "star" /\ pc \in {"done", "raised"}

SomeGroupEmpty ==
    \/ PatientGroup \cap df.columns = {}
    \/ ExamGroup \cap df.columns = {}
    \/ PathologyGroup \cap df.columns = {}

(* C17: build_star_schema fails if and only if some dimension group has    *)
(* none of its columns in the dataset; a group with some columns absent is *)
(* built from the present ones, and nothing else, an absent fact-only      *)
(* column included, makes it fail.                                         *)
C17_FailsOnlyOnEmptyGroup ==
    StarEnded =>
        /\ (pc = "raised") <=> SomeGroupEmpty
        /\ pc = "done" =>
              \A i \in DOMAIN tables.DimPatient :
                  DOMAIN tables.DimPatient[i] = (PatientGroup \cap df.columns) \cup {"PatientKey"}

\* the fact rows without their key, and the joined rows they come from
FactBody(i) == [c \in FactColumns |-> tables.FactCase[i][c]]

JoinedBody(j) == [c \in FactColumns |-> tables.joined[j][c]]

FirstJoined(i) ==
    CHOOSE j \in DOMAIN tables.joined :
        /\ JoinedBody(j) = FactBody(i)
        /\ \A m \in 1..(j - 1) : JoinedBody(m) # FactBody(i)

(* C18: FactCase holds no two rows equal on CaseNaturalKey, the three      *)
(* foreign keys and the fact-only columns, and its FactCaseKey values are  *)
(* exactly 1..n in first-seen order of the distinct fact rows.             *)
C18_FactRowsDistinct ==
    StarDone =>
        /\ \A i, j \in DOMAIN tables.FactCase : FactBody(i) = FactBody(j) => i = j
        /\ \A i \in DOMAIN tables.FactCase : tables.FactCase[i]["FactCaseKey"] = i
        /\ {FactBody(i) : i \in DOMAIN tables.FactCase}
              = {JoinedBody(j) : j \in DOMAIN tables.joined}
        /\ \A i, j \in DOMAIN tables.FactCase : i < j => FirstJoined(i) < FirstJoined(j)

\* the same case twice in the input gives one fact row
C18_Witness ==
    /\ StarDone
    /\ "ID" \in df.columns
    /\ Len(df.rows) = 2
    /\ df.rows[1] = df.rows[2]
    /\ Len(tables.FactCase) = 1
    /\ tables.FactCase[1]["FactCaseKey"] = 1

(* C24: without an ID column the CaseNaturalKey of each fact row is the    *)
(* ordinal position of its row in the frame given to build_star_schema,    *)
(* counted from 0 or from 1, also when earlier steps dropped rows of the   *)
(* frame; with an ID column it is the ID of the row.                       *)
C24_OrdinalNaturalKey ==
    StarDone =>
        IF "ID" \in df.columns
        THEN \A j \in DOMAIN tables.joined :
                 tables.joined[j]["CaseNaturalKey"] = df.rows[j]["ID"]
        ELSE /\ Len(tables.FactCase) = Len(df.rows)
             /\ \/ \A i \in DOMAIN tables.FactCase :
                      tables.FactCase[i]["CaseNaturalKey"] = IndexText(i - 1)
                \/ \A i \in DOMAIN tables.FactCase :
                      tables.FactCase[i]["CaseNaturalKey"] = IndexText(i)

\* what the code does without an ID column: the key is the index label the
\* row carries, which is its position before any row was dropped
C24_IndexLabelKey ==
    (StarDone /\ "ID" \notin df.columns) =>
        /\ Len(tables.FactCase) = Len(df.rows)
        /\ \A i \in DOMAIN tables.FactCase :
              tables.FactCase[i]["CaseNaturalKey"] = IndexText(df.index[i])

\* row j of the working frame after the three merges, cut back to the
\* columns the frame had before them
BeforeMerges(j) ==
    [c \in df.columns \cup {"CaseNaturalKey"} |-> tables.joined[j][c]]

(* C27: the three dimension joins preserve the row collection: the working *)
(* frame after them has exactly as many rows as the input, row j of it is  *)
(* input row j with the three keys added, and FactCase has no more rows    *)
(* than the input.                                                          *)
C27_JoinsPreserveRows ==
    StarDone =>
        /\ Len(tables.joined) = Len(df.rows)
        /\ \A j \in DOMAIN tables.joined : BeforeMerges(j) = SourceRows[j]
        /\ Len(tables.FactCase) <= Len(df.rows)

\* two different rows that share their patient, exam and pathology tuples,
\* so each dimension has one row that both rows match, were joined
C27_Witness ==
    /\ StarDone
    /\ Len(df.rows) = 2
    /\ SourceRows[1] # SourceRows[2]
    /\ Len(tables.DimPatient) = 1
    /\ Len(tables.DimExam) = 1
    /\ Len(tables.DimPathology) = 1
    /\ Len(tables.joined) = 2
    /\ BeforeMerges(2) = SourceRows[2]

-----------------------------------------------------------------------------
(* Text order and JSON text *)

\* the characters of the model in code point order
CodePointOrder ==
    <<"\t", "\n", " ", "\"", "'", "(", ")", "*", "+", ",", "-", ".", "/",
      "0", "1", "2", "3", "4", "5", "6", "7", "8", "9", ":",
      "A", "D", "E", "F", "G", "I", "L", "M", "N", "S", "X", "[", "]", "_",
      "a", "b", "c", "d", "e", "f", "g", "h", "i", "j", "k", "l", "m",
      "n", "o", "p", "q", "r", "s", "t", "u", "v", "w", "x", "y", "z",
      "{", "}", "ç", "è", "é", OELig, RSquo>>

Ord(c) == CHOOSE i \in DOMAIN CodePointOrder : CodePointOrder[i] = c

\* a < b for two str
RECURSIVE TextLess(_, _)
TextLess(a, b) ==
    IF b = <<>> THEN FALSE
    ELSE IF a = <<>> THEN TRUE
    ELSE IF Head(a) = Head(b) THEN TextLess(Tail(a), Tail(b))
    ELSE Ord(Head(a)) < Ord(Head(b))

(* JSON text is kept as its sequence of lexemes, white space left out: a   *)
(* punctuation mark, a quoted string, or a word of prose.                  *)

Punct(c) == <<c>>

Quoted(t) == <<"\"">> \o t \o <<"\"">>

IsQuoted(l) ==
    /\ Len(l) >= 2
    /\ l[1] = "\""
    /\ l[Len(l)] = "\""
    /\ \A i \in 2..(Len(l) - 1) : l[i] # "\""

Unquoted(l) == Slice(l, 2, Len(l) - 1)

K_target_table == <<"t", "a", "r", "g", "e", "t", "_", "t", "a", "b", "l", "e">>
K_columns == <<"c", "o", "l", "u", "m", "n", "s">>
K_name == <<"n", "a", "m", "e">>
K_type == <<"t", "y", "p", "e">>
K_source_xpath == <<"s", "o", "u", "r", "c", "e", "_", "x", "p", "a", "t", "h">>
T_casimage_cases ==
    <<"c", "a", "s", "i", "m", "a", "g", "e", "_", "c", "a", "s", "e", "s">>

TypeText(typ) ==
    CASE typ = "int" -> <<"i", "n", "t">>
      [] typ = "float" -> <<"f", "l", "o", "a", "t">>
      [] typ = "date" -> <<"d", "a", "t", "e">>
      [] OTHER -> <<"s", "t", "r", "i", "n", "g">>

TypeOfText(t) ==
    CASE t = <<"i", "n", "t">> -> "int"
      [] t = <<"f", "l", "o", "a", "t">> -> "float"
      [] t = <<"d", "a", "t", "e">> -> "date"
      [] t = <<"s", "t", "r", "i", "n", "g">> -> "string"
      [] OTHER -> "other"

DumpsColumn(col) ==
    << Punct("{"), Quoted(K_name), Punct(":"), Quoted(col.name), Punct(","),
       Quoted(K_type), Punct(":"), Quoted(TypeText(col.type)), Punct(","),
       Quoted(K_source_xpath), Punct(":"), Quoted(col.source_xpath), Punct("}") >>

RECURSIVE DumpsColumns(_)
DumpsColumns(cols) ==
    IF cols = <<>> THEN <<>>
    ELSE IF Len(cols) = 1 THEN DumpsColumn(cols[1])
    ELSE DumpsColumn(cols[1]) \o <<Punct(",")>> \o DumpsColumns(Tail(cols))

\* json.dumps(mapping, ensure_ascii=False, indent=2)
Dumps(m) ==
    << Punct("{"), Quoted(K_target_table), Punct(":"), Quoted(m.target_table),
       Punct(","), Quoted(K_columns), Punct(":"), Punct("[") >>
    \o DumpsColumns(m.columns) \o << Punct("]"), Punct("}") >>

ColumnLexemes == 13

IsColumnJson(t) ==
    /\ Len(t) = ColumnLexemes
    /\ t[1] = Punct("{") /\ t[2] = Quoted(K_name) /\ t[3] = Punct(":")
    /\ IsQuoted(t[4]) /\ t[5] = Punct(",")
    /\ t[6] = Quoted(K_type) /\ t[7] = Punct(":") /\ IsQuoted(t[8])
    /\ t[9] = Punct(",") /\ t[10] = Quoted(K_source_xpath)
    /\ t[11] = Punct(":") /\ IsQuoted(t[12]) /\ t[13] = Punct("}")

\* the lexemes between [ and ] are column objects separated by commas
RECURSIVE AreColumnsJson(_)
AreColumnsJson(t) ==
    \/ t = <<>>
    \/ Len(t) = ColumnLexemes /\ IsColumnJson(t)
    \/ /\ Len(t) > ColumnLexemes + 1
       /\ IsColumnJson(Slice(t, 1, ColumnLexemes))
       /\ t[ColumnLexemes + 1] = Punct(",")
       /\ AreColumnsJson(Slice(t, ColumnLexemes + 2, Len(t)))

RECURSIVE LoadsColumns(_)
LoadsColumns(t) ==
    IF Len(t) < ColumnLexemes THEN <<>>
    ELSE << Column(Unquoted(t[4]), TypeOfText(Unquoted(t[8])), Unquoted(t[12])) >>
         \o LoadsColumns(Slice(t, ColumnLexemes + 2, Len(t)))

\* does the text parse as a MappingSpec JSON object
ParsesAsMappingSpec(t) ==
    /\ Len(t) >= 10
    /\ t[1] = Punct("{") /\ t[2] = Quoted(K_target_table) /\ t[3] = Punct(":")
    /\ IsQuoted(t[4]) /\ t[5] = Punct(",") /\ t[6] = Quoted(K_columns)
    /\ t[7] = Punct(":") /\ t[8] = Punct("[")
    /\ t[Len(t) - 1] = Punct("]") /\ t[Len(t)] = Punct("}")
    /\ AreColumnsJson(Slice(t, 9, Len(t) - 2))

\* json.loads of a text that parses
Loads(t) ==
    [target_table |-> Unquoted(t[4]), columns |-> LoadsColumns(Slice(t, 9, Len(t) - 2))]

-----------------------------------------------------------------------------
(* _infer_types_from_samples *)

\* re.sub(r"[^A-Za-z0-9_]+", "_", t): every run of other characters becomes "_"
RECURSIVE SubNonWord(_, _)
SubNonWord(t, inRun) ==
    IF t = <<>> THEN <<>>
    ELSE IF Head(t) \in AsciiWordChars THEN <<Head(t)>> \o SubNonWord(Tail(t), FALSE)
    ELSE IF inRun THEN SubNonWord(Tail(t), TRUE)
    ELSE <<"_">> \o SubNonWord(Tail(t), TRUE)

T_unknown == <<"u", "n", "k", "n", "o", "w", "n">>

\* the normalisation without .lower()
NormalizeTagNoLower(raw_tag) ==
    LET key == StripChars(SubNonWord(Strip(raw_tag), FALSE), {"_"})
    IN  IF key = <<>> THEN T_unknown ELSE key

\* key = re.sub(...).strip("_").lower() or "unknown"
NormalizeTag(raw_tag) ==
    LET key == Lower(StripChars(SubNonWord(Strip(raw_tag), FALSE), {"_"}))
    IN  IF key = <<>> THEN T_unknown ELSE key

AllDigits(t) == t # <<>> /\ \A i \in DOMAIN t : t[i] \in Digits

\* re.fullmatch(r"-?\d+", t)
IsIntText(t) == AllDigits(IF t # <<>> /\ Head(t) = "-" THEN Tail(t) ELSE t)

\* re.fullmatch(r"-?\d+\.\d+", t)
IsFloatText(t) ==
    LET b == IF t # <<>> /\ Head(t) = "-" THEN Tail(t) ELSE t
        d == DotAt(b)
    IN  d # 0 /\ AllDigits(Slice(b, 1, d - 1)) /\ AllDigits(Slice(b, d + 1, Len(b)))

\* re.fullmatch(r"\d{4}-\d{2}-\d{2}", t)
IsDateShaped(t) ==
    /\ Len(t) = 10
    /\ t[5] = "-" /\ t[8] = "-"
    /\ \A i \in {1, 2, 3, 4, 6, 7, 9, 10} : t[i] \in Digits

IsLeap(y) == (y % 4 = 0 /\ y % 100 # 0) \/ y % 400 = 0

DaysIn(y, m) ==
    IF m = 2 THEN (IF IsLeap(y) THEN 29 ELSE 28)
    ELSE IF m \in {4, 6, 9, 11} THEN 30 ELSE 31

\* datetime.date.fromisoformat(t) does not raise
IsCalendarDate(t) ==
    LET y == DigitsValue(Slice(t, 1, 4), 0)
        m == DigitsValue(Slice(t, 6, 7), 0)
        d == DigitsValue(Slice(t, 9, 10), 0)
    IN  y >= 1 /\ m \in 1..12 /\ d \in 1..DaysIn(y, m)

\* the detection without the try of date.fromisoformat
DetectedTypeNoCalendar(value) ==
    LET cleaned_val == Strip(value)
    IN  IF cleaned_val = <<>> THEN "string"
        ELSE IF IsIntText(cleaned_val) THEN "int"
        ELSE IF IsFloatText(cleaned_val) THEN "float"
        ELSE IF IsDateShaped(cleaned_val) THEN "date"
        ELSE "string"

\* the type detected for one sample value (None counts as "")
DetectedType(value) ==
    LET cleaned_val == Strip(value)
    IN  IF cleaned_val = <<>> THEN "string"
        ELSE IF IsIntText(cleaned_val) THEN "int"
        ELSE IF IsFloatText(cleaned_val) THEN "float"
        ELSE IF IsDateShaped(cleaned_val) /\ IsCalendarDate(cleaned_val) THEN "date"
        ELSE "string"

\* the loop with schema.setdefault(key, detected_type): the first sample stays
RECURSIVE SchemaOfKeepFirst(_, _)
SchemaOfKeepFirst(samples, schema) ==
    IF samples = <<>> THEN schema
    ELSE SchemaOfKeepFirst(Tail(samples),
                  IF DictHas(schema, NormalizeTag(Head(samples)[1])) THEN schema
                  ELSE DictSet(schema, NormalizeTag(Head(samples)[1]),
                               DetectedType(Head(samples)[2])))

\* the loop over the samples: schema[key] = detected_type
RECURSIVE SchemaOf(_, _)
SchemaOf(samples, schema) ==
    IF samples = <<>> THEN schema
    ELSE SchemaOf(Tail(samples),
                  DictSet(schema, NormalizeTag(Head(samples)[1]),
                          DetectedType(Head(samples)[2])))

\* sorted(schema.items())
RECURSIVE InsertSorted(_, _)
InsertSorted(sorted, item) ==
    IF sorted = <<>> THEN <<item>>
    ELSE IF TextLess(item[1], Head(sorted)[1]) THEN <<item>> \o sorted
    ELSE <<Head(sorted)>> \o InsertSorted(Tail(sorted), item)

\* schema.items() as it is, in insertion order
UnsortedItems(items) == items

RECURSIVE SortedItems(_)
SortedItems(items) ==
    IF items = <<>> THEN <<>>
    ELSE InsertSorted(SortedItems(Slice(items, 1, Len(items) - 1)), items[Len(items)])

\* the mapping dict built at lines 95-105
InferredMapping(samples) ==
    LET items == SortedItems(SchemaOf(samples, <<>>))
    IN  [target_table |-> T_casimage_cases,
         columns |-> [i \in DOMAIN items |->
                        Column(items[i][1], items[i][2], <<"/", "/">> \o items[i][1])]]

infer_types_from_samples(samples) == Dumps(InferredMapping(samples))

-----------------------------------------------------------------------------
(* ai_propose_mapping *)

\* the only [A-Za-z0-9:_-] characters
TagChars == AsciiWordChars \cup {":", "-"}

\* length of the longest prefix of t[i..] made of characters of S
RECURSIVE RunLen(_, _, _)
RunLen(t, i, S) ==
    IF i <= Len(t) /\ t[i] \in S THEN 1 + RunLen(t, i + 1, S) ELSE 0

\* re.search(r"-\s+([A-Za-z0-9:_-]+)\s+\(", line) matches at position i
TagMatchAt(line, i) ==
    LET s1 == RunLen(line, i + 1, SpaceChars)
        g == RunLen(line, i + 1 + s1, TagChars)
        s2 == RunLen(line, i + 1 + s1 + g, SpaceChars)
        e == i + 1 + s1 + g + s2
    IN  /\ line[i] = "-"
        /\ s1 >= 1 /\ g >= 1 /\ s2 >= 1
        /\ e <= Len(line) /\ line[e] = "("

\* match.group(1) of the leftmost match
TagOfMatch(line) ==
    LET i == CHOOSE i \in DOMAIN line :
                 TagMatchAt(line, i) /\ \A j \in 1..(i - 1) : ~TagMatchAt(line, j)
        s1 == RunLen(line, i + 1, SpaceChars)
        g == RunLen(line, i + 1 + s1, TagChars)
    IN  Slice(line, i + 1 + s1, i + s1 + g)

HasTag(line) == \E i \in DOMAIN line : TagMatchAt(line, i)

\* the tags of the summary, in line order
RECURSIVE TagsOf(_)
TagsOf(lines) ==
    IF lines = <<>> THEN <<>>
    ELSE (IF HasTag(Head(lines)) THEN <<TagOfMatch(Head(lines))>> ELSE <<>>)
         \o TagsOf(Tail(lines))

\* tags[:30]
SampleLimit == 30

T_123 == <<"1", "2", "3">>
T_text == <<"t", "e", "x", "t">>
T_1 == <<"1">>
T_diagnosis == <<"d", "i", "a", "g", "n", "o", "s", "i", "s">>

\* samples = [(t, "123" if "id" in t.lower() else "text") for t in tags[:30]]
OfflineSamples(lines) ==
    LET tags == TagsOf(lines)
        taken == Slice(tags, 1, IF Len(tags) < SampleLimit THEN Len(tags) ELSE SampleLimit)
    IN  [i \in DOMAIN taken |->
            <<taken[i], IF Contains(Lower(taken[i]), T_id) THEN T_123 ELSE T_text>>]

\* _infer_types_from_samples([("id", "1"), ("diagnosis", "text")])
FallbackMapping == infer_types_from_samples(<< <<T_id, T_1>>, <<T_diagnosis, T_text>> >>)

\* what the delegated call did: it raised (import failure, unreachable
\* collaborator, timeout, API error), or it answered with a message whose
\* content is None, or with a text
Raises == [kind |-> "raises", content |-> <<>>]

NoContent == [kind |-> "no_content", content |-> <<>>]

Content(t) == [kind |-> "content", content |-> t]

FirstOpen(t) ==
    IF \E i \in DOMAIN t : t[i] = Punct("{")
    THEN CHOOSE i \in DOMAIN t : t[i] = Punct("{") /\ \A j \in 1..(i - 1) : t[j] # Punct("{")
    ELSE 0

LastClose(t) ==
    IF \E i \in DOMAIN t : t[i] = Punct("}")
    THEN CHOOSE i \in DOMAIN t :
             t[i] = Punct("}") /\ \A j \in (i + 1)..Len(t) : t[j] # Punct("}")
    ELSE 0

\* re.search(r"\{.*\}", content, re.S): greedy, from the first { to the last }
HasBraces(t) == FirstOpen(t) # 0 /\ LastClose(t) > FirstOpen(t)

BraceMatch(t) == Slice(t, FirstOpen(t), LastClose(t))

\* return match.group(0) if match else content
Extract(t) == IF HasBraces(t) THEN BraceMatch(t) ELSE t

-----------------------------------------------------------------------------
(* Inputs of the synthesizer *)

MaxLines == 2

MaxChunks == 2

T_occurrences == <<"o", "c", "c", "u", "r", "r", "e", "n", "c", "e", "s">>

\* f"{'  ' * depth}- {tag} ({count} occurrences)"
SummaryLine(depth, tag, count) ==
    Flatten([i \in 1..depth |-> <<" ", " ">>])
    \o <<"-", " ">> \o tag \o <<" ", "(">> \o count \o <<" ">> \o T_occurrences \o <<")">>

\* f"Erreur lors du parsing XML : {e}"
ErrorLine ==
    <<"E", "r", "r", "e", "u", "r", " ", "l", "o", "r", "s", " ", "d", "u", " ",
      "p", "a", "r", "s", "i", "n", "g", " ", "X", "M", "L", " ", ":", " ",
      "s", "y", "n", "t", "a", "x">>

LinePool ==
    { SummaryLine(0, T_ID, T_1),
      SummaryLine(1, T_Age, T_1),
      SummaryLine(1, <<"N", "é">>, T_1),
      ErrorLine }

DelegatedMapping ==
    [target_table |-> T_casimage_cases,
     columns |-> << Column(T_age, "int", <<"/", "/">> \o T_Age) >>]

\* pieces of a collaborator's answer: prose, lone braces, a MappingSpec, a
\* MappingSpec without columns, a MappingSpec cut off inside its first column
ChunkPool ==
    { << <<"o", "k">> >>,
      << Punct("{") >>,
      << Punct("}") >>,
      Dumps(DelegatedMapping),
      Dumps([target_table |-> T_casimage_cases, columns |-> <<>>]),
      Slice(Dumps(DelegatedMapping), 1, 12) }

InitSynth ==
    /\ machine = "synth"
    /\ pc = "start"
    /\ apiKey \in BOOLEAN
    /\ \E n \in 0..MaxLines : summary \in [1..n -> LinePool]
    /\ response = <<>>
    /\ result = <<>>
    /\ calls = 0
    /\ localRuns = 0
    /\ raised = "none"
    /\ record = Idle
    /\ mapping = Idle
    /\ colIdx = 0
    /\ row = Idle
    /\ df = Idle
    /\ tables = Idle
    /\ EnrichIdle
    /\ LaterIdle

    /\ LastIdle
\* if not api_key: ... return _infer_types_from_samples(samples)
OfflineInference ==
    /\ machine = "synth"
    /\ pc = "start"
    /\ ~apiKey
    /\ result' = infer_types_from_samples(OfflineSamples(summary))
    /\ localRuns' = localRuns + 1
    /\ pc' = "done"
    /\ UNCHANGED <<machine, raised, projVars, starVars, enrichVars, laterVars, lastVars,
                   apiKey, summary, response, calls>>

\* the try block up to response = client.chat.completions.create(...)
CallCollaborator ==
    /\ machine = "synth"
    /\ pc = "start"
    /\ apiKey
    /\ \/ response' \in {Raises, NoContent}
       \/ \E n \in 0..MaxChunks :
             \E chunks \in [1..n -> ChunkPool] : response' = Content(Flatten(chunks))
    /\ calls' = calls + 1
    /\ pc' = "called"
    /\ UNCHANGED <<machine, raised, projVars, starVars, enrichVars, laterVars, lastVars,
                   apiKey, summary, result, localRuns>>

\* content = ...strip(); match = re.search(...); return match.group(0) or content
ExtractJson ==
    /\ machine = "synth"
    /\ pc = "called"
    /\ response.kind = "content"
    /\ result' = Extract(response.content)
    /\ pc' = "done"
    /\ UNCHANGED <<machine, raised, projVars, starVars, enrichVars, laterVars, lastVars,
                   apiKey, summary, response, calls, localRuns>>

\* except Exception: return _infer_types_from_samples([...])
FallbackInference ==
    /\ machine = "synth"
    /\ pc = "called"
    /\ response.kind \in {"raises", "no_content"}
    /\ result' = FallbackMapping
    /\ localRuns' = localRuns + 1
    /\ pc' = "done"
    /\ UNCHANGED <<machine, raised, projVars, starVars, enrichVars, laterVars, lastVars,
                   apiKey, summary, response, calls>>

NextSynth == OfflineInference \/ CallCollaborator \/ ExtractJson \/ FallbackInference

SpecSynth == InitSynth /\ [][NextSynth]_vars

SynthDone == machine = "synth" /\ pc = "done"

(* C4: for every structure summary and every collaborator outcome,         *)
(* ai_propose_mapping returns text that parses as a MappingSpec JSON       *)
(* object with a target_table and a columns list of at least one column.   *)
C4_AlwaysValidNonEmpty ==
    SynthDone =>
        /\ ParsesAsMappingSpec(result)
        /\ Len(Loads(result).columns) >= 1

\* the delegated call failed: it raised, it gave no content, its content holds
\* no JSON object, or the JSON it holds is malformed
DelegatedFailed ==
    \/ response.kind \in {"raises", "no_content"}
    \/ /\ response.kind = "content"
       /\ \/ ~HasBraces(response.content)
          \/ ~ParsesAsMappingSpec(BraceMatch(response.content))

(* C5: in delegated mode every failure of the delegated call makes          *)
(* ai_propose_mapping return the local-inference MappingSpec of the fixed   *)
(* sample, and no error reaches the caller.                                 *)
C5_FailureFallsBack ==
    (SynthDone /\ apiKey /\ DelegatedFailed) =>
        /\ result = FallbackMapping
        /\ raised = "none"

(* C20: in one invocation of ai_propose_mapping the collaborator is called *)
(* at most once; once that call has failed, local inference has run        *)
(* exactly once by the time the invocation returns and the collaborator    *)
(* is not called again.                                                    *)
C20_OneCallOneFallback ==
    machine = "synth" =>
        /\ calls <= 1
        /\ localRuns <= 1
        /\ (SynthDone /\ calls = 1 /\ DelegatedFailed) => localRuns = 1

\* the position of the brace that closes the block opened before position i,
\* depth braces being open there; 0 when the text ends first
RECURSIVE ClosingBrace(_, _, _)
ClosingBrace(t, i, depth) ==
    IF i > Len(t) THEN 0
    ELSE IF t[i] = Punct("{") THEN ClosingBrace(t, i + 1, depth + 1)
    ELSE IF t[i] = Punct("}")
         THEN (IF depth = 1 THEN i ELSE ClosingBrace(t, i + 1, depth - 1))
    ELSE ClosingBrace(t, i + 1, depth)

\* the first { of the text has a } that closes it
HasBalancedBlock(t) == FirstOpen(t) # 0 /\ ClosingBrace(t, FirstOpen(t) + 1, 1) # 0

\* from the first { to the } that closes it
FirstBalancedBlock(t) == Slice(t, FirstOpen(t), ClosingBrace(t, FirstOpen(t) + 1, 1))

(* C21: from a delegated response that holds a balanced {...} block,       *)
(* ai_propose_mapping returns the first such block: the text from the      *)
(* first { to the } that closes it, without the text or the braces that    *)
(* follow it in the response.                                              *)
C21_FirstBalancedBlock ==
    (SynthDone /\ apiKey /\ response.kind = "content"
        /\ HasBalancedBlock(response.content)) =>
        result = FirstBalancedBlock(response.content)

-----------------------------------------------------------------------------
(* normalize_text and extract_age_from_text *)

T_None == <<"N", "o", "n", "e">>

\* str(v) of a cell: the text, or "None" for a missing value
StrOf(v) == IF v.t = "none" THEN T_None ELSE v.s

\* re.sub(r"[\x00-\x1F\x7F-\x9F]", " ", s)
SubControl(t) == [i \in DOMAIN t |-> IF t[i] \in ControlChars THEN " " ELSE t[i]]

T_stars == <<"*", "*", "*">>

\* s.replace("***", " "): left to right, without overlap
RECURSIVE ReplaceStars(_)
ReplaceStars(t) ==
    IF t = <<>> THEN <<>>
    ELSE IF OccursAt(t, T_stars, 1) THEN <<" ">> \o ReplaceStars(Slice(t, 4, Len(t)))
    ELSE <<Head(t)>> \o ReplaceStars(Tail(t))

\* re.sub(r"\s+", " ", s)
RECURSIVE CollapseSpaces(_, _)
CollapseSpaces(t, inRun) ==
    IF t = <<>> THEN <<>>
    ELSE IF Head(t) \notin SpaceChars THEN <<Head(t)>> \o CollapseSpaces(Tail(t), FALSE)
    ELSE IF inRun THEN CollapseSpaces(Tail(t), TRUE)
    ELSE <<" ">> \o CollapseSpaces(Tail(t), TRUE)

\* normalize_text on a str
NormalizeStr(t) == Strip(CollapseSpaces(ReplaceStars(SubControl(t)), FALSE))

\* normalize_text on a cell: "" when the cell is not a str
normalize_text(v) == IF v.t = "str" THEN NormalizeStr(v.s) ELSE <<>>

IsWordAt(t, i) == i >= 1 /\ i <= Len(t) /\ t[i] \in WordChars

\* \b between positions k and k + 1
Boundary(t, k) == IsWordAt(t, k) # IsWordAt(t, k + 1)

T_depuis == <<"d", "e", "p", "u", "i", "s">>
T_ans == <<"a", "n", "s">>
T_an == <<"a", "n">>
T_yo == <<"y", "o">>
T_year == <<"y", "e", "a", "r">>
T_years == <<"y", "e", "a", "r", "s">>
T_evolution == <<"é", "v", "o", "l", "u", "t", "i", "o", "n">>

\* re.search(r"depuis\s+\d{1,2}\s+ans", text)
DepuisAt(t, i) ==
    LET a == i + Len(T_depuis)
        s1 == RunLen(t, a, SpaceChars)
        g == RunLen(t, a + s1, Digits)
        s2 == RunLen(t, a + s1 + g, SpaceChars)
    IN  /\ OccursAt(t, T_depuis, i)
        /\ s1 >= 1 /\ g \in {1, 2} /\ s2 >= 1
        /\ OccursAt(t, T_ans, a + s1 + g + s2)

HasDepuisCue(t) == \E i \in DOMAIN t : DepuisAt(t, i)

\* the alternatives of (ans|an|yo|years?)
AgeUnits == <<T_ans, T_an, T_yo, T_years, T_year>>

\* AGE_REGEX matches at position i: (\b\d{1,2})\s*(ans|an|yo|years?)\b
AgeMatchAt(t, i) ==
    LET g == RunLen(t, i, Digits)
        w == RunLen(t, i + g, SpaceChars)
        e == i + g + w
    IN  /\ Boundary(t, i - 1)
        /\ g \in {1, 2}
        /\ \E u \in DOMAIN AgeUnits :
              /\ OccursAt(t, AgeUnits[u], e)
              /\ Boundary(t, e + Len(AgeUnits[u]) - 1)

HasAgeMatch(t) == \E i \in DOMAIN t : AgeMatchAt(t, i)

\* int(m.group(1)) of the first match
FirstAgeMatch(t) ==
    LET i == CHOOSE i \in DOMAIN t :
                 AgeMatchAt(t, i) /\ \A j \in 1..(i - 1) : ~AgeMatchAt(t, j)
    IN  DigitsValue(Slice(t, i, i + RunLen(t, i, Digits) - 1), 0)

MinAge == 1

MaxAge == 120

\* no age extracted
NoAge == 0

\* int(m.group(1)) of a match that starts at position i
AgeNumberAt(t, i) == DigitsValue(Slice(t, i, i + RunLen(t, i, Digits) - 1), 0)

\* the positions of the matches whose number is an age
AgeMatchesInRange(t) ==
    {i \in DOMAIN t : AgeMatchAt(t, i) /\ AgeNumberAt(t, i) >= MinAge
                                        /\ AgeNumberAt(t, i) <= MaxAge}

\* extract_age_from_text going on to the next match (finditer) when the
\* number of a match is no age
extract_age_any_match(v) ==
    IF v.t # "str" THEN NoAge
    ELSE LET text == Lower(NormalizeStr(v.s))
         IN  IF HasDepuisCue(text) THEN NoAge
             ELSE IF Contains(text, T_evolution) THEN NoAge
             ELSE IF AgeMatchesInRange(text) # {}
             THEN AgeNumberAt(text, CHOOSE i \in AgeMatchesInRange(text) :
                                        \A j \in AgeMatchesInRange(text) : i <= j)
             ELSE NoAge

extract_age_ignoring_cues(v) ==
    IF v.t # "str" THEN NoAge
    ELSE LET text == Lower(NormalizeStr(v.s))
         IN  IF HasAgeMatch(text)
                /\ FirstAgeMatch(text) >= MinAge /\ FirstAgeMatch(text) <= MaxAge
             THEN FirstAgeMatch(text)
             ELSE NoAge

\* extract_age_from_text on a cell; None is NoAge
extract_age_from_text(v) ==
    IF v.t # "str" THEN NoAge
    ELSE LET text == Lower(NormalizeStr(v.s))
         IN  IF HasDepuisCue(text) THEN NoAge
             ELSE IF Contains(text, T_evolution) THEN NoAge
             ELSE IF HasAgeMatch(text)
                     /\ FirstAgeMatch(text) >= MinAge /\ FirstAgeMatch(text) <= MaxAge
             THEN FirstAgeMatch(text)
             ELSE NoAge

-----------------------------------------------------------------------------
(* infer_sex_from_text and fix_sex *)

\* re.search(r"\b" + lit + r"\b", t); the (?!e) that follows \bpatient\b can
\* never fail once the \b before it has matched
WordSearch(t, lit) ==
    \E i \in DOMAIN t :
        /\ OccursAt(t, lit, i)
        /\ Boundary(t, i - 1)
        /\ Boundary(t, i + Len(lit) - 1)

T_homme == <<"h", "o", "m", "m", "e">>
T_patient == <<"p", "a", "t", "i", "e", "n", "t">>
T_patiente == <<"p", "a", "t", "i", "e", "n", "t", "e">>
T_femme == <<"f", "e", "m", "m", "e">>
T_il == <<"i", "l", " ">>
T_elle == <<"e", "l", "l", "e", " ">>
T_presente == <<"p", "r", "é", "s", "e", "n", "t", "e">>
T_consulte == <<"c", "o", "n", "s", "u", "l", "t", "e">>
T_sagit == <<"s", "'", "a", "g", "i", "t">>
T_prostate == <<"p", "r", "o", "s", "t", "a", "t", "e">>
T_uterus == <<"u", "t", "é", "r", "u", "s">>

\* SEX_PATTERNS["M"], in order
MalePatterns ==
    << T_homme,
       <<"g", "a", "r", "ç", "o", "n">>,
       T_patient,
       <<"m", "a", "s", "c", "u", "l", "i", "n">>,
       T_il \o T_presente,
       T_il \o T_consulte,
       T_il \o T_sagit,
       T_il \o <<"a">>,
       <<"l", "e", " ">> \o T_patient,
       <<"d", "'", "u", "n", " ">> \o T_homme,
       <<"d", RSquo, "u", "n", " ">> \o T_homme,
       <<"c", "h", "e", "z", " ", "l", "u", "i">>,
       <<"m", "r">>,
       <<"m", ".">> >>

\* SEX_PATTERNS["F"], in order
FemalePatterns ==
    << T_femme,
       <<"f", "i", "l", "l", "e">>,
       T_patiente,
       T_patiente \o <<"s">>,
       <<"f", "é", "m", "i", "n", "i", "n">>,
       T_elle \o T_presente,
       T_elle \o T_consulte,
       T_elle \o T_sagit,
       T_elle \o <<"a">>,
       <<"l", "a", " ">> \o T_patiente,
       <<"d", "'", "u", "n", "e", " ">> \o T_femme,
       <<"d", RSquo, "u", "n", "e", " ">> \o T_femme,
       <<"c", "h", "e", "z", " ", "e", "l", "l", "e">>,
       <<"m", "m", "e">>,
       <<"m", "m", "e", ".">>,
       <<"m", "a", "d", "e", "m", "o", "i", "s", "e", "l", "l", "e">>,
       <<"m", "l", "e">> >>

\* SEX_KEYWORDS["M"]
MaleKeywords ==
    << T_prostate,
       <<"t", "e", "s", "t", "i", "c", "u", "l", "e">>,
       <<"s", "c", "r", "o", "t", "u", "m">>,
       <<"v", "e", "r", "g", "e">>,
       <<"p", "é", "n", "i", "s">>,
       <<"p", "e", "n", "i", "s">>,
       <<"e", "p", "i", "d", "i", "d", "y", "m", "e">>,
       <<"é", "p", "i", "d", "i", "d", "y", "m", "e">>,
       <<"a", "n", "d", "r", "o", "p", "a", "u", "s", "e">> >>

\* SEX_KEYWORDS["F"]
FemaleKeywords ==
    << <<"o", "v", "a", "i", "r", "e">>,
       <<"o", "v", "a", "i", "r", "e", "s">>,
       T_uterus,
       <<"u", "t", "e", "r", "u", "s">>,
       <<"g", "r", "o", "s", "s", "e", "s", "s", "e">>,
       <<"e", "n", "d", "o", "m", "è", "t", "r", "e">>,
       <<"e", "n", "d", "o", "m", "e", "t", "r", "e">>,
       <<"f", OELig, "t", "u", "s">>,
       <<"f", "o", "e", "t", "u", "s">>,
       <<"m", "é", "n", "o", "p", "a", "u", "s", "e">>,
       <<"m", "e", "n", "o", "p", "a", "u", "s", "e">>,
       <<"g", "y", "n", "é", "c", "o", "l", "o", "g", "i", "e">>,
       <<"g", "y", "n", "e", "c", "o", "l", "o", "g", "i", "e">>,
       <<"m", "a", "m", "e", "l", "l", "e">> >>

MatchesPattern(t, patterns) == \E k \in DOMAIN patterns : WordSearch(t, patterns[k])

HasKeyword(t, keywords) == \E k \in DOMAIN keywords : Contains(t, keywords[k])

\* the lexical patterns with the feminine list tried before the masculine one
PatternSexFeminineFirst(t) ==
    IF MatchesPattern(t, FemalePatterns) THEN "F"
    ELSE IF MatchesPattern(t, MalePatterns) THEN "M"
    ELSE ""

\* the sex the lexical patterns give for a normalized text, "" if none
PatternSex(t) ==
    IF MatchesPattern(t, MalePatterns) THEN "M"
    ELSE IF MatchesPattern(t, FemalePatterns) THEN "F"
    ELSE ""

\* the sex the keyword table gives for a normalized text, "" if none
KeywordSex(t) ==
    IF HasKeyword(t, MaleKeywords) THEN "M"
    ELSE IF HasKeyword(t, FemaleKeywords) THEN "F"
    ELSE ""

\* infer_sex_from_text with the keyword loop run before the pattern loop
infer_sex_keywords_first(v) ==
    IF v.t # "str" THEN ""
    ELSE LET t == Lower(NormalizeStr(v.s))
         IN  IF KeywordSex(t) # "" THEN KeywordSex(t) ELSE PatternSex(t)

\* infer_sex_from_text on a cell
infer_sex_from_text(v) ==
    IF v.t # "str" THEN ""
    ELSE LET t == Lower(NormalizeStr(v.s))
         IN  IF PatternSex(t) # "" THEN PatternSex(t) ELSE KeywordSex(t)

\* row.get(col, "")
RowGet(r, col) == IF col \in DOMAIN r THEN r[col] ELSE StrVal(<<>>)

SexColumns == <<"ClinicalPresentation", "Description", "Commentary", "Title", "KeyWords">>

\* the for loop of fix_sex: first column that yields a sex
RECURSIVE ScanSex(_, _)
ScanSex(r, cols) ==
    IF cols = <<>> THEN ""
    ELSE IF infer_sex_from_text(RowGet(r, Head(cols))) # ""
         THEN infer_sex_from_text(RowGet(r, Head(cols)))
         ELSE ScanSex(r, Tail(cols))

\* val = str(row.get("Sex", "")).strip().upper()
ExistingSex(r) == Upper(Strip(StrOf(RowGet(r, "Sex"))))

SexOfText(t) == IF t = <<"M">> THEN "M" ELSE IF t = <<"F">> THEN "F" ELSE ""

fix_sex_text_first(r) ==
    IF ScanSex(r, SexColumns) # "" THEN ScanSex(r, SexColumns)
    ELSE SexOfText(ExistingSex(r))

fix_sex(r) ==
    IF ExistingSex(r) \in {<<"M">>, <<"F">>} THEN SexOfText(ExistingSex(r))
    ELSE ScanSex(r, SexColumns)

-----------------------------------------------------------------------------
(* fix_age *)

\* pd.to_datetime(v, errors="coerce", dayfirst=True).year for the two date
\* forms of the model, DD/MM/YYYY and YYYY-MM-DD; NaT is NoYear
NoYear == 0

IsDayFirstShaped(t) ==
    /\ Len(t) = 10
    /\ t[3] = "/" /\ t[6] = "/"
    /\ \A i \in {1, 2, 4, 5, 7, 8, 9, 10} : t[i] \in Digits

YearOf(v) ==
    IF v.t # "str" THEN NoYear
    ELSE LET t == v.s
         IN  IF IsDayFirstShaped(t)
             THEN LET d == DigitsValue(Slice(t, 1, 2), 0)
                      m == DigitsValue(Slice(t, 4, 5), 0)
                      y == DigitsValue(Slice(t, 7, 10), 0)
                  IN  IF y >= 1 /\ m \in 1..12 /\ d \in 1..DaysIn(y, m) THEN y ELSE NoYear
             ELSE IF IsDateShaped(t) /\ IsCalendarDate(t)
             THEN DigitsValue(Slice(t, 1, 4), 0)
             ELSE NoYear

InAgeRange(n) == n >= MinAge /\ n <= MaxAge

\* step 1: pd.notna(age), int(age) does not raise, 1 <= age <= 120
ExistingAgeValid(r) ==
    /\ RowGet(r, "Age").t = "str"
    /\ IntParses(RowGet(r, "Age").s)
    /\ InAgeRange(IntParse(RowGet(r, "Age").s))

AgeColumns == <<"ClinicalPresentation", "Description", "Title">>

\* step 2: the for loop over the text columns
RECURSIVE ScanAge(_, _)
ScanAge(r, cols) ==
    IF cols = <<>> THEN NoAge
    ELSE IF extract_age_from_text(RowGet(r, Head(cols))) # NoAge
         THEN extract_age_from_text(RowGet(r, Head(cols)))
         ELSE ScanAge(r, Tail(cols))

\* step 3: exam.year - birth.year when both dates parse and it is in range
ComputedAge(r) ==
    LET birth == YearOf(RowGet(r, "Birthdate"))
        exam == YearOf(RowGet(r, "Date"))
    IN  IF birth # NoYear /\ exam # NoYear /\ InAgeRange(exam - birth)
        THEN exam - birth
        ELSE NoAge

fix_age_dates_first(r) ==
    IF ExistingAgeValid(r) THEN IntParse(RowGet(r, "Age").s)
    ELSE IF ComputedAge(r) # NoAge THEN ComputedAge(r)
    ELSE ScanAge(r, AgeColumns)

\* fix_age on a row; None is NoAge
fix_age(r) ==
    IF ExistingAgeValid(r) THEN IntParse(RowGet(r, "Age").s)
    ELSE IF ScanAge(r, AgeColumns) # NoAge THEN ScanAge(r, AgeColumns)
    ELSE ComputedAge(r)

-----------------------------------------------------------------------------
(* extract_age_from_text on texts built from words *)

MaxWords == 3

\* the words a text is made of, each followed by a space or by nothing
WordPool ==
    { T_depuis, T_evolution, T_45, <<"0">>, <<"1">>, T_ans, T_an,
      <<"Y", "o">>, <<"x">> }

TokenPool == WordPool \cup {w \o <<" ">> : w \in WordPool}

T_douleurs_depuis_10_ans ==
    <<"d", "o", "u", "l", "e", "u", "r", "s", " ">> \o T_depuis
    \o <<" ", "1", "0", " ">> \o T_ans

T_0_an_puis_12_ans == <<"0", " ">> \o T_an \o <<" ", "p", "u", "i", "s", " ", "1", "2", " ">> \o T_ans

T_patient_de_45_ans == T_patient \o <<" ", "d", "e", " ">> \o T_45 \o <<" ">> \o T_ans

OtherProjectIdle ==
    /\ record = Idle
    /\ mapping = Idle
    /\ colIdx = 0
    /\ row = Idle
    /\ df = Idle
    /\ tables = Idle
    /\ SynthIdle
    /\ LaterIdle

    /\ LastIdle
InitAgeText ==
    /\ machine = "agetext"
    /\ pc = "start"
    /\ \/ \E n \in 0..MaxWords :
             \E ws \in [1..n -> TokenPool] : cell = StrVal(Flatten(ws))
       \/ cell \in {StrVal(T_douleurs_depuis_10_ans), StrVal(T_patient_de_45_ans),
                    StrVal(T_0_an_puis_12_ans), NoneVal}
    /\ erow = <<>>
    /\ ageOut = NoAge
    /\ sexOut = ""
    /\ cleaned = <<>>
    /\ raised = "none"
    /\ OtherProjectIdle

\* a = extract_age_from_text(text)
ExtractAge ==
    /\ machine = "agetext"
    /\ pc = "start"
    /\ ageOut' = extract_age_from_text(cell)
    /\ pc' = "done"
    /\ UNCHANGED <<machine, raised, projVars, starVars, synthVars, laterVars, lastVars, cell, erow, sexOut, cleaned>>

NextAgeText == ExtractAge

SpecAgeText == InitAgeText /\ [][NextAgeText]_vars

AgeTextDone == machine = "agetext" /\ pc = "done"

\* the text the patterns are run on
Searched == Lower(NormalizeStr(cell.s))

\* the text holds a duration cue: "depuis <N> ans" or the word "évolution"
HasDurationCue(t) == HasDepuisCue(t) \/ Contains(t, T_evolution)

(* C8: extract_age_from_text gives no age for a text that holds a duration *)
(* cue, "depuis <N> ans" or "évolution"; for a text without a cue it gives  *)
(* the number of the first 1-2 digit token followed by an age unit when     *)
(* that number is in [1,120]; "douleurs depuis 10 ans" gives no age and     *)
(* "patient de 45 ans" gives 45.                                            *)
C8_DurationCue ==
    (AgeTextDone /\ cell.t = "str") =>
        /\ HasDurationCue(Searched) => ageOut = NoAge
        /\ (~HasDurationCue(Searched) /\ HasAgeMatch(Searched)
              /\ InAgeRange(FirstAgeMatch(Searched)))
           => ageOut = FirstAgeMatch(Searched)
        /\ cell.s = T_douleurs_depuis_10_ans => ageOut = NoAge
        /\ cell.s = T_patient_de_45_ans => ageOut = 45

\* "depuis 45 ans" was given and no age came out of it
C8_Witness ==
    /\ AgeTextDone
    /\ cell = StrVal(T_depuis \o <<" ">> \o T_45 \o <<" ">> \o T_ans)
    /\ ageOut = NoAge

\* the position of the leftmost match of the age pattern
LeftmostMatch(t) ==
    CHOOSE i \in DOMAIN t : AgeMatchAt(t, i) /\ \A j \in 1..(i - 1) : ~AgeMatchAt(t, j)

(* C30: extract_age_from_text looks at the first match of the age pattern  *)
(* only: an age that comes out is the number of that match, and when that  *)
(* number is outside [1,120] no age comes out, a later match in range or   *)
(* not; the pattern takes two digits at most, so every age that comes out  *)
(* is in [1,99].                                                            *)
C30_FirstMatchOnly ==
    (AgeTextDone /\ cell.t = "str") =>
        /\ ageOut # NoAge =>
              /\ HasAgeMatch(Searched)
              /\ ageOut = AgeNumberAt(Searched, LeftmostMatch(Searched))
              /\ ageOut >= 1 /\ ageOut <= 99
        /\ (HasAgeMatch(Searched)
              /\ ~InAgeRange(AgeNumberAt(Searched, LeftmostMatch(Searched))))
           => ageOut = NoAge

\* the first match of a text without duration cue is "0 an", a later match
\* is an age, and no age came out
C30_Witness ==
    /\ AgeTextDone
    /\ cell.t = "str"
    /\ ~HasDurationCue(Searched)
    /\ HasAgeMatch(Searched)
    /\ AgeNumberAt(Searched, LeftmostMatch(Searched)) = 0
    /\ \E i \in AgeMatchesInRange(Searched) : i > LeftmostMatch(Searched)
    /\ ageOut = NoAge

-----------------------------------------------------------------------------
(* fix_age and fix_sex on one row *)

\* a column the row does not have
Absent == [t |-> "absent", n |-> 0, s |-> <<>>]

\* the row that holds the columns of f that are not Absent
RowOf(f) == [c \in {k \in DOMAIN f : f[k] # Absent} |-> f[c]]

T_evolution_12_ans == T_evolution \o <<" ", "1", "2", " ">> \o T_ans
T_la_patiente_30_ans == <<"l", "a", " ">> \o T_patiente \o <<" ", "3", "0", " ">> \o T_ans
T_Homme_60_YO == <<"H", "o", "m", "m", "e", " ", " ", "6", "0", " ", "Y", "O">>
T_patiente_prostate == T_patiente \o <<" ">> \o T_prostate
T_il_consulte == T_il \o T_consulte
T_Femme_puis_homme == <<"F">> \o Tail(T_femme) \o <<" ", "p", "u", "i", "s", " ">> \o T_homme
T_born_1950 == <<"0", "3", "/", "0", "2", "/", "1", "9", "5", "0">>
T_born_1880 == <<"0", "1", "/", "0", "1", "/", "1", "8", "8", "0">>
T_exam_2001 == <<"2", "0", "0", "1", "-", "0", "2", "-", "0", "3">>

\* rows for fix_age
AgeCells ==
    [ Age |-> { Absent, NoneVal, StrVal(T_45), StrVal(<<"0">>), StrVal(<<"1", "2", "1">>),
                StrVal(T_34ans), StrVal(<<" ", "7">>), StrVal(T_3p50) },
      ClinicalPresentation |-> { Absent, NoneVal, StrVal(T_text), StrVal(T_patient_de_45_ans),
                                 StrVal(T_douleurs_depuis_10_ans) },
      Description |-> { NoneVal, StrVal(T_evolution_12_ans), StrVal(T_0_an_puis_12_ans),
                        StrVal(T_la_patiente_30_ans) },
      Title |-> { StrVal(T_text), StrVal(T_Homme_60_YO) },
      Birthdate |-> { Absent, NoneVal, StrVal(T_born_1950), StrVal(T_text), StrVal(T_born_1880) },
      Date |-> { NoneVal, StrVal(T_exam_2001), StrVal(T_born_1950) } ]

\* rows for fix_sex
SexCells ==
    [ Sex |-> { Absent, NoneVal, StrVal(<<"F">>), StrVal(<<" ", "m", " ">>), StrVal(<<"X">>) },
      ClinicalPresentation |-> { Absent, NoneVal, StrVal(T_text), StrVal(T_prostate),
                                 StrVal(T_patiente_prostate) },
      Description |-> { NoneVal, StrVal(T_text), StrVal(T_la_patiente_30_ans),
                        StrVal(T_Homme_60_YO), StrVal(T_Femme_puis_homme) },
      Commentary |-> { StrVal(T_text), StrVal(T_uterus) },
      Title |-> { StrVal(T_text), StrVal(T_il_consulte) },
      KeyWords |-> { Absent, StrVal(T_prostate) } ]

InitEnrich ==
    /\ machine = "enrich"
    /\ pc = "start"
    /\ \/ \E a \in AgeCells.Age, c \in AgeCells.ClinicalPresentation,
             d \in AgeCells.Description, t \in AgeCells.Title,
             b \in AgeCells.Birthdate, e \in AgeCells.Date :
             erow = RowOf([Age |-> a, ClinicalPresentation |-> c, Description |-> d,
                           Title |-> t, Birthdate |-> b, Date |-> e])
       \/ \E x \in SexCells.Sex, c \in SexCells.ClinicalPresentation,
             d \in SexCells.Description, m \in SexCells.Commentary,
             t \in SexCells.Title, k \in SexCells.KeyWords :
             erow = RowOf([Sex |-> x, ClinicalPresentation |-> c, Description |-> d,
                           Commentary |-> m, Title |-> t, KeyWords |-> k])
    /\ cell = <<>>
    /\ ageOut = NoAge
    /\ sexOut = ""
    /\ cleaned = <<>>
    /\ raised = "none"
    /\ OtherProjectIdle

\* ageOut = fix_age(row)
FixAge ==
    /\ machine = "enrich"
    /\ pc = "start"
    /\ ageOut' = fix_age(erow)
    /\ pc' = "age"
    /\ UNCHANGED <<machine, raised, projVars, starVars, synthVars, laterVars, lastVars, cell, erow, sexOut, cleaned>>

\* sexOut = fix_sex(row)
FixSex ==
    /\ machine = "enrich"
    /\ pc = "start"
    /\ sexOut' = fix_sex(erow)
    /\ pc' = "sex"
    /\ UNCHANGED <<machine, raised, projVars, starVars, synthVars, laterVars, lastVars, cell, erow, ageOut, cleaned>>

NextEnrich == FixAge \/ FixSex

SpecEnrich == InitEnrich /\ [][NextEnrich]_vars

AgeDone == machine = "enrich" /\ pc = "age"

SexDone == machine = "enrich" /\ pc = "sex"

\* the age the text of the k-th candidate column gives
TextAge(k) == extract_age_from_text(RowGet(erow, AgeColumns[k]))

\* the candidate columns whose text gives an age
AgeHits == {k \in DOMAIN AgeColumns : TextAge(k) # NoAge}

BirthYear == YearOf(RowGet(erow, "Birthdate"))

ExamYear == YearOf(RowGet(erow, "Date"))

DatesResolve == BirthYear # NoYear /\ ExamYear # NoYear /\ InAgeRange(ExamYear - BirthYear)

(* C7: fix_age resolves by strict precedence: an existing numeric Age in    *)
(* [1,120] is returned whatever the texts and dates hold; otherwise the age *)
(* of the first of ClinicalPresentation, Description, Title that gives one; *)
(* otherwise exam year minus birth year when both dates parse and the       *)
(* difference is in [1,120]; otherwise null.                                *)
C7_AgePrecedence ==
    AgeDone =>
        /\ ExistingAgeValid(erow) => ageOut = IntParse(RowGet(erow, "Age").s)
        /\ (~ExistingAgeValid(erow) /\ AgeHits # {}) =>
              \E k \in AgeHits : /\ \A j \in AgeHits : k <= j
                                 /\ ageOut = TextAge(k)
        /\ (~ExistingAgeValid(erow) /\ AgeHits = {} /\ DatesResolve) =>
              ageOut = ExamYear - BirthYear
        /\ (~ExistingAgeValid(erow) /\ AgeHits = {} /\ ~DatesResolve) => ageOut = NoAge

\* no valid Age, a text that gives 45 and dates that give 51: the text wins
C7_Witness ==
    /\ AgeDone
    /\ ~ExistingAgeValid(erow)
    /\ AgeHits # {}
    /\ DatesResolve
    /\ ExamYear - BirthYear = 51
    /\ ageOut = 45

\* the texts of the candidate columns of fix_sex, as the patterns see them
SexText(k) ==
    IF RowGet(erow, SexColumns[k]).t = "str"
    THEN Lower(NormalizeStr(RowGet(erow, SexColumns[k]).s))
    ELSE <<>>

SexIsSet == ExistingSex(erow) \in {<<"M">>, <<"F">>}

\* some text of the row points to the sex s
TextPointsTo(s) ==
    \E k \in DOMAIN SexColumns : PatternSex(SexText(k)) = s \/ KeywordSex(SexText(k)) = s

(* C9: when the existing Sex, trimmed and upper-cased, is M or F, fix_sex   *)
(* returns it whatever patterns or keywords of the other sex the texts      *)
(* hold; any other existing value counts as unset: the result is then what  *)
(* the texts give, as if Sex were absent.                                   *)
C9_ExplicitSexWins ==
    SexDone =>
        /\ ExistingSex(erow) = <<"M">> => sexOut = "M"
        /\ ExistingSex(erow) = <<"F">> => sexOut = "F"
        /\ ~SexIsSet =>
              sexOut = fix_sex([c \in DOMAIN erow \ {"Sex"} |-> erow[c]])

\* Sex is "F", a text holds a male keyword, and F is returned
C9_Witness ==
    /\ SexDone
    /\ ExistingSex(erow) = <<"F">>
    /\ TextPointsTo("M")
    /\ sexOut = "F"

\* the candidate columns whose text matches a lexical pattern / anything
PatternHits == {k \in DOMAIN SexColumns : PatternSex(SexText(k)) # ""}

SexHits == {k \in DOMAIN SexColumns : PatternSex(SexText(k)) # "" \/ KeywordSex(SexText(k)) # ""}

(* C10 as stated: with Sex unset, the lexical patterns over all candidate   *)
(* fields come before the keywords: when some field matches a pattern, the  *)
(* result is the sex of the first field that matches one.                   *)
C10_PatternsBeforeKeywords ==
    (SexDone /\ ~SexIsSet /\ PatternHits # {}) =>
        \E k \in PatternHits : /\ \A j \in PatternHits : k <= j
                               /\ sexOut = PatternSex(SexText(k))

(* C10 as amended: with Sex unset, the first candidate field, in the order  *)
(* ClinicalPresentation, Description, Commentary, Title, KeyWords, that     *)
(* matches a pattern or a keyword decides; within that field a pattern      *)
(* comes before a keyword; with no such field the sex is empty.             *)
C10_FirstFieldDecides ==
    (SexDone /\ ~SexIsSet) =>
        IF SexHits = {} THEN sexOut = ""
        ELSE \E k \in SexHits :
                /\ \A j \in SexHits : k <= j
                /\ sexOut = IF PatternSex(SexText(k)) # ""
                            THEN PatternSex(SexText(k))
                            ELSE KeywordSex(SexText(k))

\* one field holds a female pattern and a male keyword, and F is returned
C10_Witness ==
    /\ SexDone
    /\ ~SexIsSet
    /\ \E k \in SexHits :
          /\ \A j \in SexHits : k <= j
          /\ PatternSex(SexText(k)) = "F"
          /\ KeywordSex(SexText(k)) = "M"
    /\ sexOut = "F"

\* the text of candidate column k matches a masculine and a feminine pattern
MatchesBothSexes(k) ==
    /\ MatchesPattern(SexText(k), MalePatterns)
    /\ MatchesPattern(SexText(k), FemalePatterns)

\* the candidate columns whose text yields a sex on its own
YieldingFields == {k \in DOMAIN SexColumns : infer_sex_from_text(RowGet(erow, SexColumns[k])) # ""}

FirstYielding == CHOOSE k \in YieldingFields : \A j \in YieldingFields : k <= j

(* C28: with Sex unset, the first of ClinicalPresentation, Description,     *)
(* Commentary, Title, KeyWords whose text yields a sex on its own decides   *)
(* the result, and when that field matches both a masculine and a feminine  *)
(* lexical pattern the result is M, the masculine patterns being tried      *)
(* before the feminine ones.                                                *)
C28_MasculineBeforeFeminine ==
    (SexDone /\ ~SexIsSet /\ YieldingFields # {}) =>
        /\ sexOut = infer_sex_from_text(RowGet(erow, SexColumns[FirstYielding]))
        /\ MatchesBothSexes(FirstYielding) => sexOut = "M"

\* the deciding field holds "Femme puis homme", the feminine word first, a
\* later field points to F, and M is returned
C28_Witness ==
    /\ SexDone
    /\ ~SexIsSet
    /\ YieldingFields # {}
    /\ MatchesBothSexes(FirstYielding)
    /\ WordSearch(SexText(FirstYielding), T_femme)
    /\ \E j \in YieldingFields :
          j > FirstYielding /\ infer_sex_from_text(RowGet(erow, SexColumns[j])) = "F"
    /\ sexOut = "M"

-----------------------------------------------------------------------------
(* apply_enhanced_cleaning on a DataFrame whose cells are str or None *)

TextColumns ==
    { "Description", "ClinicalPresentation", "Diagnosis", "Title", "Commentary",
      "KeyWords", "Anatomy", "Chapter", "Hospital", "Department" }

\* the column names of the model that start with "O"
OColumns == {"OID"}

\* df[col].astype(str).apply(normalize_text) on one row
NormalizedRow(r) ==
    [c \in DOMAIN r |->
        IF c \in TextColumns THEN StrVal(NormalizeStr(StrOf(r[c]))) ELSE r[c]]

AgeCell(n) == IF n = NoAge THEN NoneVal ELSE IntVal(n)

SexCell(x) == StrVal(IF x = "" THEN <<>> ELSE <<x>>)

\* df["Age"] = df.apply(fix_age, axis=1), only when df has the column
AgedRow(r) ==
    IF "Age" \in DOMAIN r THEN [r EXCEPT !["Age"] = AgeCell(fix_age(r))] ELSE r

\* df["Sex"] = df.apply(fix_sex, axis=1), the column is created when missing
SexedRow(r) ==
    [c \in DOMAIN r \cup {"Sex"} |-> IF c = "Sex" THEN SexCell(fix_sex(r)) ELSE r[c]]

\* df.drop(columns=o_cols)
WithoutOColumns(r) == [c \in DOMAIN r \ OColumns |-> r[c]]

EnrichedRow(r) == WithoutOColumns(SexedRow(AgedRow(NormalizedRow(r))))

\* the positions a boolean row mask keeps, in order
RECURSIVE KeptPositions(_, _)
KeptPositions(mask, i) ==
    IF i > Len(mask) THEN <<>>
    ELSE (IF mask[i] THEN <<i>> ELSE <<>>) \o KeptPositions(mask, i + 1)

\* df[mask]: the kept rows under their index labels
Filter(d, mask) ==
    LET kept == KeptPositions(mask, 1)
    IN  Frame(d.columns,
              [j \in DOMAIN kept |-> d.index[kept[j]]],
              [j \in DOMAIN kept |-> d.rows[kept[j]]])

Enriched(d) ==
    Frame((d.columns \cup {"Sex"}) \ OColumns, d.index,
          [i \in DOMAIN d.rows |-> EnrichedRow(d.rows[i])])

\* df["Age"].notna()
AgeNotNa(d) == [i \in DOMAIN d.rows |-> d.rows[i]["Age"] # NoneVal]

AgeAndSexKnown(d) ==
    [i \in DOMAIN d.rows |->
        d.rows[i]["Age"] # NoneVal /\ d.rows[i]["Sex"] # StrVal(<<>>)]

\* apply_enhanced_cleaning with the rows of unknown sex dropped as well
apply_enhanced_cleaning_sex_required(d) ==
    IF "Age" \notin d.columns
    THEN [raised |-> "KeyError", frame |-> Idle]
    ELSE [raised |-> "none", frame |-> Filter(Enriched(d), AgeAndSexKnown(Enriched(d)))]

\* apply_enhanced_cleaning(df); df["Age"] raises KeyError without the column
apply_enhanced_cleaning(d) ==
    IF "Age" \notin d.columns
    THEN [raised |-> "KeyError", frame |-> Idle]
    ELSE [raised |-> "none", frame |-> Filter(Enriched(d), AgeNotNa(Enriched(d)))]

\* the frames main.py hands over: at least one row, values str or None,
\* index labels as drop_duplicates leaves them
CleanColumnSets ==
    { {"Age", "Sex", "ClinicalPresentation", "Description", "Birthdate", "Date", "OID"},
      {"Sex", "ClinicalPresentation", "Description", "Birthdate", "Date", "OID"},
      {"Age", "ClinicalPresentation", "Date"} }

CleanRow(a, x, p, b) ==
    [ Age |-> a, Sex |-> x, ClinicalPresentation |-> p, Birthdate |-> b,
      Description |-> StrVal(T_text), Date |-> StrVal(T_exam_2001), OID |-> StrVal(T_1) ]

\* one row per way an age resolves or fails to, with and without a sex
CleanRowPool ==
    { CleanRow(StrVal(T_45), NoneVal, NoneVal, NoneVal),
      CleanRow(StrVal(<<"0">>), NoneVal, StrVal(T_patient_de_45_ans), NoneVal),
      CleanRow(NoneVal, StrVal(<<"F">>), NoneVal, StrVal(T_born_1950)),
      CleanRow(NoneVal, NoneVal, StrVal(T_douleurs_depuis_10_ans), StrVal(T_born_1950)),
      CleanRow(NoneVal, StrVal(<<"F">>), StrVal(T_douleurs_depuis_10_ans), NoneVal),
      CleanRow(StrVal(<<"0">>), NoneVal, NoneVal, StrVal(T_text)),
      CleanRow(StrVal(T_34ans), NoneVal, StrVal(T_34ans), NoneVal) }

CleanRows(cols) == {[c \in cols |-> r[c]] : r \in CleanRowPool}

CleanIndexes(n) == {RangeIndex(n), [i \in 1..n |-> i]}

InitClean ==
    /\ machine = "clean"
    /\ pc = "start"
    /\ \E cols \in CleanColumnSets, n \in 1..MaxRows :
          \E rows \in [1..n -> CleanRows(cols)], ix \in CleanIndexes(n) :
             df = Frame(cols, ix, rows)
    /\ cleaned = Idle
    /\ raised = "none"
    /\ tables = Idle
    /\ record = Idle
    /\ mapping = Idle
    /\ colIdx = 0
    /\ row = Idle
    /\ SynthIdle
    /\ LaterIdle
    /\ LastIdle
    /\ cell = <<>>
    /\ erow = <<>>
    /\ ageOut = NoAge
    /\ sexOut = ""

\* df = apply_enhanced_cleaning(df)
ApplyEnhancedCleaning ==
    /\ machine = "clean"
    /\ pc = "start"
    /\ LET out == apply_enhanced_cleaning(df)
       IN  /\ cleaned' = out.frame
           /\ raised' = out.raised
           /\ pc' = IF out.raised = "none" THEN "done" ELSE "raised"
    /\ UNCHANGED <<machine, df, tables, projVars, synthVars, laterVars, lastVars, cell, erow, ageOut, sexOut>>

NextClean == ApplyEnhancedCleaning

SpecClean == InitClean /\ [][NextClean]_vars

CleanDone == machine = "clean" /\ pc = "done"

\* the three steps of the age resolution, on a row as it came in
ExistingAgeResolves(r) == ExistingAgeValid(r)

TextAgeResolves(r) ==
    \E k \in DOMAIN AgeColumns : extract_age_from_text(RowGet(r, AgeColumns[k])) # NoAge

DateAgeResolves(r) ==
    /\ YearOf(RowGet(r, "Birthdate")) # NoYear
    /\ YearOf(RowGet(r, "Date")) # NoYear
    /\ InAgeRange(YearOf(RowGet(r, "Date")) - YearOf(RowGet(r, "Birthdate")))

AgeResolves(r) == ExistingAgeResolves(r) \/ TextAgeResolves(r) \/ DateAgeResolves(r)

\* the positions of the output that carry the index label of input row i
OutputOf(i) == {j \in DOMAIN cleaned.rows : cleaned.index[j] = df.index[i]}

(* C6: a row is in the output of apply_enhanced_cleaning if and only if its *)
(* age resolves through one of the three steps (existing numeric age, text  *)
(* extraction, exam year minus birth year); every surviving row has Age in  *)
(* [1,120]; a row whose sex stays empty is kept when its age resolves.      *)
C6_RowKeptIffAgeResolves ==
    CleanDone =>
        /\ \A i \in DOMAIN df.rows :
              /\ AgeResolves(df.rows[i]) <=> OutputOf(i) # {}
              /\ Cardinality(OutputOf(i)) <= 1
        /\ \A j \in DOMAIN cleaned.rows :
              /\ cleaned.index[j] \in Range(df.index)
              /\ cleaned.rows[j]["Age"].t = "int"
              /\ InAgeRange(cleaned.rows[j]["Age"].n)
        /\ \A i \in DOMAIN df.rows :
              (AgeResolves(df.rows[i]) /\ fix_sex(NormalizedRow(df.rows[i])) = "") =>
                 \E j \in OutputOf(i) : cleaned.rows[j]["Sex"] = StrVal(<<>>)

\* of two rows the one without an age is gone, the one kept has no sex
C6_Witness ==
    /\ CleanDone
    /\ Len(df.rows) = 2
    /\ ~AgeResolves(df.rows[1])
    /\ AgeResolves(df.rows[2])
    /\ Len(cleaned.rows) = 1
    /\ cleaned.index[1] = df.index[2]
    /\ cleaned.rows[1]["Sex"] = StrVal(<<>>)

-----------------------------------------------------------------------------
(* get_by_xpath as a state machine: one record, one path, one resolution *)

MaxSegs == 2

T_X == <<"X">>

\* what a key of the record can carry: scalars, None, lists, nested maps
ResolveNodes ==
    NodePool \cup
    { MapNode(<<<<T_X, Scalar(T_45)>>, <<T_x, Scalar(T_3p50)>>>>),
      ListNode(<<MapNode(<<<<T_x, ListNode(<<Scalar(T_m7)>>)>>>>), Scalar(T_45)>>) }

ResolveKeys == {T_Age, T_age}

SegPool == {T_Age, T_age, T_x, T_X}

\* the segments joined by sep, with lead before and trail after
RECURSIVE Joined(_, _)
Joined(segs, sep) ==
    IF segs = <<>> THEN <<>>
    ELSE IF Len(segs) = 1 THEN segs[1]
    ELSE segs[1] \o sep \o Joined(Tail(segs), sep)

InitResolve ==
    /\ machine = "resolve"
    /\ pc = "start"
    /\ \E n \in 0..Cardinality(ResolveKeys) :
          \E e \in [1..n -> ResolveKeys \X ResolveNodes] :
             DistinctKeys(e) /\ record = MapNode(e)
    /\ \E n \in 0..MaxSegs :
          \E segs \in [1..n -> SegPool],
             lead \in {<<>>, <<"/">>, <<"/", "/">>},
             sep \in {<<"/">>, <<"/", "/">>},
             trail \in {<<>>, <<"/">>} :
             xpathIn = lead \o Joined(segs, sep) \o trail
    /\ found = Idle
    /\ mapping = Idle
    /\ colIdx = 0
    /\ row = Idle
    /\ raised = "none"
    /\ df = Idle
    /\ tables = Idle
    /\ SynthIdle
    /\ EnrichIdle
    /\ LastIdle
    /\ sampleList = <<>>
    /\ inferred = <<>>
    /\ rawRecords = <<>>
    /\ typedRows = <<>>

\* found = get_by_xpath(record, xpath)
Resolve ==
    /\ machine = "resolve"
    /\ pc = "start"
    /\ found' = get_by_xpath(record, xpathIn)
    /\ pc' = "done"
    /\ UNCHANGED <<machine, raised, projVars, starVars, synthVars, enrichVars,
                   xpathIn, sampleList, inferred, rawRecords, typedRows, lastVars>>

NextResolve == Resolve

SpecResolve == InitResolve /\ [][NextResolve]_vars

ResolveDone == machine = "resolve" /\ pc = "done"

\* the path with the case of its letters changed
CaseVariants(p) ==
    { Upper(p), Lower(p),
      [i \in DOMAIN p |-> IF i % 2 = 0 THEN UpperChar(p[i]) ELSE LowerChar(p[i])] }

\* every "/" of the path doubled: an empty segment after each segment
RECURSIVE DoubleSlashes(_)
DoubleSlashes(p) ==
    IF p = <<>> THEN <<>>
    ELSE (IF Head(p) = "/" THEN <<"/", "/">> ELSE <<Head(p)>>) \o DoubleSlashes(Tail(p))

\* the path with leading, trailing or empty segments added
SlashVariants(p) ==
    { <<"/">> \o p, p \o <<"/">>, <<"/", "/">> \o p \o <<"/", "/">>, DoubleSlashes(p) }

(* C11: resolving a path gives the same result as resolving a path that    *)
(* differs from it only in the letter case of its segments, and the same   *)
(* result as a path that differs only by added leading, trailing or empty  *)
(* segments.                                                               *)
C11_CaseAndSlashInsensitive ==
    ResolveDone =>
        \A q \in CaseVariants(xpathIn) \cup SlashVariants(xpathIn) :
            get_by_xpath(record, q) = found

\* a path of two segments with letters in both cases that reaches a scalar
C11_Witness ==
    /\ ResolveDone
    /\ found.kind = "scalar"
    /\ Len(PathKeys(xpathIn)) = 2
    /\ Upper(xpathIn) # xpathIn
    /\ Lower(xpathIn) # xpathIn

\* the reference resolver, segment by segment
SegStarts(p) == {i \in DOMAIN p : p[i] # "/" /\ (i = 1 \/ p[i - 1] = "/")}

SegEnd(p, i) ==
    CHOOSE j \in i..Len(p) :
        /\ \A k \in i..j : p[k] # "/"
        /\ j = Len(p) \/ p[j + 1] = "/"

RefSegments(p) ==
    [n \in 1..Cardinality(SegStarts(p)) |->
        LET i == CHOOSE k \in SegStarts(p) :
                    Cardinality({m \in SegStarts(p) : m < k}) = n - 1
        IN  Slice(p, i, SegEnd(p, i))]

RefFirst(node) ==
    IF node.kind # "list" THEN node
    ELSE IF Len(node.items) = 0 THEN NoneNode
    ELSE node.items[1][2]

RefStep(node, seg) ==
    LET cur == RefFirst(node)
        hits == {i \in DOMAIN cur.items : Lower(cur.items[i][1]) = Lower(seg)}
    IN  IF cur.kind # "map" \/ hits = {} THEN NoneNode
        ELSE cur.items[CHOOSE i \in hits : \A j \in hits : i <= j][2]

RECURSIVE RefFold(_, _, _)
RefFold(node, segs, i) ==
    IF i > Len(segs) THEN node ELSE RefFold(RefStep(node, segs[i]), segs, i + 1)

RefResolve(node, p) == RefFirst(RefFold(node, RefSegments(p), 1))

-----------------------------------------------------------------------------
(* _infer_types_from_samples as a state machine *)

MaxSamples == 2

T_42 == <<"4", "2">>
T_3p14 == <<"3", ".", "1", "4">>
T_foo == <<"f", "o", "o">>
T_2023_01_05 == <<"2", "0", "2", "3", "-", "0", "1", "-", "0", "5">>
T_2023_02_30 == <<"2", "0", "2", "3", "-", "0", "2", "-", "3", "0">>

TagPool ==
    { T_ID, <<" ", "a", "g", "e", " ">>, <<"A", "-", "g", ".", "e">>,
      <<"_", "-", "_">>, <<"é">>, <<"_", "a", "_", "_", "x", "-">> }

ValuePool ==
    { T_42, T_m7, T_3p14, <<"4", ".">>,
      T_2023_01_05, T_2023_02_30, <<>>, T_foo }

InitInfer ==
    /\ machine = "infer"
    /\ pc = "start"
    /\ \E n \in 0..MaxSamples :
          \E ss \in [1..n -> TagPool \X ValuePool] : sampleList = ss
    /\ inferred = <<>>
    /\ xpathIn = <<>>
    /\ found = <<>>
    /\ rawRecords = <<>>
    /\ typedRows = <<>>
    /\ record = Idle
    /\ mapping = Idle
    /\ colIdx = 0
    /\ row = Idle
    /\ raised = "none"
    /\ df = Idle
    /\ tables = Idle
    /\ SynthIdle
    /\ EnrichIdle
    /\ LastIdle

\* inferred = _infer_types_from_samples(samples)
InferTypes ==
    /\ machine = "infer"
    /\ pc = "start"
    /\ inferred' = infer_types_from_samples(sampleList)
    /\ pc' = "done"
    /\ UNCHANGED <<machine, raised, projVars, starVars, synthVars, enrichVars,
                   xpathIn, found, sampleList, rawRecords, typedRows, lastVars>>

NextInfer == InferTypes

SpecInfer == InitInfer /\ [][NextInfer]_vars

InferDone == machine = "infer" /\ pc = "done"

\* the columns of the MappingSpec the returned text parses to
InferredColumns == Loads(inferred).columns

\* the samples whose type ends up in the mapping: the last one of each name
Deciding ==
    {i \in DOMAIN sampleList :
        \A j \in DOMAIN sampleList :
            j > i => NormalizeTag(sampleList[j][1]) # NormalizeTag(sampleList[i][1])}

TypeOfColumn(name) ==
    (CHOOSE c \in Range(InferredColumns) : c.name = name).type

\* the rules of the classification, on a value taken as it is
MinusLen(v) == IF v # <<>> /\ v[1] = "-" THEN 1 ELSE 0

RuleInt(v) ==
    /\ Len(v) > MinusLen(v)
    /\ \A i \in (MinusLen(v) + 1)..Len(v) : v[i] \in Digits

RuleFloat(v) ==
    \E d \in DOMAIN v :
        /\ v[d] = "."
        /\ d > MinusLen(v) + 1
        /\ d < Len(v)
        /\ \A i \in ((MinusLen(v) + 1)..Len(v)) \ {d} : v[i] \in Digits

RuleDate(v) == IsDateShaped(v) /\ IsCalendarDate(v)

RuleType(v) ==
    IF RuleInt(v) THEN "int"
    ELSE IF RuleFloat(v) THEN "float"
    ELSE IF RuleDate(v) THEN "date"
    ELSE "string"

\* the value without its leading and trailing white space
Trimmed(v) ==
    LET inside == {i \in DOMAIN v : v[i] \notin SpaceChars}
    IN  IF inside = {} THEN <<>>
        ELSE Slice(v, CHOOSE i \in inside : \A j \in inside : i <= j,
                      CHOOSE i \in inside : \A j \in inside : j <= i)

(* C13 as stated: local inference classifies each sample value in strict   *)
(* order: digits with an optional leading minus give int; else             *)
(* digits.digits gives float; else a \d{4}-\d{2}-\d{2} value that is a     *)
(* calendar date gives date; everything else gives string.                 *)
C13_ClassifiesValueAsIs ==
    InferDone =>
        \A i \in Deciding :
            TypeOfColumn(NormalizeTag(sampleList[i][1])) = RuleType(sampleList[i][2])

(* C13 as amended: the same rules, applied to the sample value with its    *)
(* leading and trailing white space stripped; "2023-01-05" is date, "42"   *)
(* is int, "3.14" is float, "foo" is string, "2023-02-30" and "" are       *)
(* string.                                                                 *)
C13_ClassifiesStrippedValue ==
    InferDone =>
        \A i \in Deciding :
            LET typ == TypeOfColumn(NormalizeTag(sampleList[i][1]))
                v == sampleList[i][2]
            IN  /\ typ = RuleType(Trimmed(v))
                /\ v = T_2023_01_05 => typ = "date"
                /\ v = T_42 => typ = "int"
                /\ v = T_3p14 => typ = "float"
                /\ v = T_foo => typ = "string"
                /\ v \in {T_2023_02_30, <<>>} => typ = "string"

\* a date that is no calendar date came out as string, a padded int as int
C13_Witness ==
    /\ InferDone
    /\ Len(sampleList) = 2
    /\ Deciding = {1, 2}
    /\ sampleList[1][2] = T_2023_02_30
    /\ sampleList[2][2] = T_m7
    /\ TypeOfColumn(NormalizeTag(sampleList[1][1])) = "string"
    /\ TypeOfColumn(NormalizeTag(sampleList[2][1])) = "int"

\* the samples without those a later sample of the same normalized name follows
RECURSIVE LastSamples(_)
LastSamples(ss) ==
    IF ss = <<>> THEN <<>>
    ELSE IF \E j \in 2..Len(ss) : NormalizeTag(ss[j][1]) = NormalizeTag(ss[1][1])
         THEN LastSamples(Tail(ss))
         ELSE <<Head(ss)>> \o LastSamples(Tail(ss))

(* C29: when several samples normalize to the same column name, the column *)
(* gets the type of the last of them in input order, and the earlier ones  *)
(* have no effect: the mapping is the one the last samples alone give.     *)
C29_LastSampleDecides ==
    InferDone =>
        /\ \A i \in Deciding :
               TypeOfColumn(NormalizeTag(sampleList[i][1])) = DetectedType(sampleList[i][2])
        /\ inferred = infer_types_from_samples(LastSamples(sampleList))

\* two different tags that normalize to the same name, an int sample and
\* then a date sample: the column is a date
C29_Witness ==
    /\ InferDone
    /\ Len(sampleList) = 2
    /\ sampleList[1][1] # sampleList[2][1]
    /\ NormalizeTag(sampleList[1][1]) = NormalizeTag(sampleList[2][1])
    /\ sampleList[1][2] = T_42
    /\ sampleList[2][2] = T_2023_01_05
    /\ Len(InferredColumns) = 1
    /\ TypeOfColumn(NormalizeTag(sampleList[1][1])) = "date"

\* the characters of a normalized column name
NameChars == (LowerLetters \cap AsciiWordChars) \cup Digits \cup {"_"}

HasAlnum(t) == \E i \in DOMAIN t : t[i] \in AsciiWordChars \ {"_"}

(* C14: column-name normalization is idempotent and always gives a         *)
(* non-empty identifier over [a-z0-9_]; a tag with no alphanumeric         *)
(* character normalizes to "unknown". The names of the inferred mapping    *)
(* are the normalized tags.                                                *)
C14_NormalizeIdempotent ==
    InferDone =>
        \A i \in DOMAIN sampleList :
            LET t == sampleList[i][1]
                name == NormalizeTag(t)
            IN  /\ NormalizeTag(name) = name
                /\ name # <<>>
                /\ \A k \in DOMAIN name : name[k] \in NameChars
                /\ ~HasAlnum(t) => name = T_unknown
                /\ \E c \in Range(InferredColumns) : c.name = name

\* a tag with upper case, punctuation and underscores, and one with no
\* alphanumeric character
C14_Witness ==
    /\ InferDone
    /\ Len(sampleList) = 2
    /\ sampleList[1][1] = <<"A", "-", "g", ".", "e">>
    /\ sampleList[2][1] = <<"_", "-", "_">>
    /\ \E c \in Range(InferredColumns) : c.name = <<"a", "_", "g", "_", "e">>
    /\ \E c \in Range(InferredColumns) : c.name = T_unknown

NormalizedNames == {NormalizeTag(sampleList[i][1]) : i \in DOMAIN sampleList}

OneColumnPerNameSorted ==
    /\ {InferredColumns[k].name : k \in DOMAIN InferredColumns} = NormalizedNames
    /\ Len(InferredColumns) = Cardinality(NormalizedNames)
    /\ \A k \in 1..(Len(InferredColumns) - 1) :
          TextLess(InferredColumns[k].name, InferredColumns[k + 1].name)

(* C15 as stated: the inferred MappingSpec has exactly one column per      *)
(* distinct normalized name, the columns are in ascending order of name,   *)
(* and the source path of each column is "/" followed by its name.         *)
C15_OneSlashPath ==
    InferDone =>
        /\ OneColumnPerNameSorted
        /\ \A k \in DOMAIN InferredColumns :
              InferredColumns[k].source_xpath = <<"/">> \o InferredColumns[k].name

(* C15 as amended: one column per distinct normalized name, in ascending   *)
(* order of name, and the source path of each column is "//" followed by   *)
(* its name, which resolves as "/" followed by the name does.              *)
C15_TwoSlashPath ==
    InferDone =>
        /\ OneColumnPerNameSorted
        /\ \A k \in DOMAIN InferredColumns :
              /\ InferredColumns[k].source_xpath = <<"/", "/">> \o InferredColumns[k].name
              /\ PathKeys(InferredColumns[k].source_xpath) = <<InferredColumns[k].name>>

\* two samples given in descending order of name come out in ascending order
C15_Witness ==
    /\ InferDone
    /\ Len(sampleList) = 2
    /\ NormalizeTag(sampleList[1][1]) = T_id
    /\ NormalizeTag(sampleList[2][1]) = T_age
    /\ Len(InferredColumns) = 2
    /\ InferredColumns[1].name = T_age


-----------------------------------------------------------------------------
(* Inference, projection and cleaning in sequence over three records *)

T_2 == <<"2">>
T_3 == <<"3">>
T_fracture == <<"f", "r", "a", "c", "t", "u", "r", "e">>
T_tumeur_masse == <<"t", "u", "m", "e", "u", "r", " ", "m", "a", "s", "s", "e">>
T_Diagnosis == <<"D", "i", "a", "g", "n", "o", "s", "i", "s">>
T_Description == <<"D", "e", "s", "c", "r", "i", "p", "t", "i", "o", "n">>
T_description == <<"d", "e", "s", "c", "r", "i", "p", "t", "i", "o", "n">>
T_patient_de_34_ans == T_patient \o <<" ", "d", "e", " ", "3", "4", " ">> \o T_ans

\* the (ID, Age, Diagnosis) texts of the three records
BaseRecords ==
    << <<T_1, T_1, T_fracture>>,
       <<T_2, T_34ans, T_fracture>>,
       <<T_3, <<>>, T_tumeur_masse>> >>

\* a record may carry one more element, a free-text Description
DescEntries ==
    { <<>>,
      << <<T_Description, Scalar(T_patient_de_34_ans)>> >>,
      << <<T_Description, Scalar(T_douleurs_depuis_10_ans)>> >> }

CaseRecord(base, desc) ==
    MapNode(<< <<T_ID, Scalar(base[1])>>, <<T_Age, Scalar(base[2])>>,
               <<T_Diagnosis, Scalar(base[3])>> >> \o desc)

\* the (tag, value) samples of one record
SamplesOf(rec) == [i \in DOMAIN rec.items |-> <<rec.items[i][1], rec.items[i][2].text>>]

RECURSIVE SamplesOfKept(_, _, _)
SamplesOfKept(recs, keep, i) ==
    IF i > Len(recs) THEN <<>>
    ELSE (IF keep[i] THEN SamplesOf(recs[i]) ELSE <<>>) \o SamplesOfKept(recs, keep, i + 1)

\* the column label a key text stands for
ColumnLabel(t) ==
    CASE t = T_ID -> "ID" [] t = T_id -> "id"
      [] t = T_Age -> "Age" [] t = T_age -> "age"
      [] t = T_Diagnosis -> "Diagnosis" [] t = T_diagnosis -> "diagnosis"
      [] t = T_Description -> "Description" [] t = T_description -> "description"

\* pd.DataFrame(rows) of a list of dicts: the union of the keys as columns,
\* a missing value where a dict lacks the key
DataFrameOf(dicts) ==
    LET cols == {ColumnLabel(dicts[i][j][1]) : <<i, j>> \in
                    {<<i, j>> \in (DOMAIN dicts) \X (1..4) : j <= Len(dicts[i])}}
    IN  Frame(cols, RangeIndex(Len(dicts)),
              [i \in DOMAIN dicts |->
                  [c \in cols |->
                      IF \E j \in DOMAIN dicts[i] : ColumnLabel(dicts[i][j][1]) = c
                      THEN dicts[i][CHOOSE j \in DOMAIN dicts[i] :
                                        ColumnLabel(dicts[i][j][1]) = c][2]
                      ELSE NoneVal]])

\* main.py: record = {k: v for k, v in case.items() if isinstance(v, str)}
StrItems(rec) ==
    SelectSeq([i \in DOMAIN rec.items |->
                  <<rec.items[i][1],
                    IF rec.items[i][2].kind = "scalar"
                    THEN StrVal(rec.items[i][2].text) ELSE NoneVal>>],
              LAMBDA kv : kv[2] # NoneVal)

\* main.py: x.strip() on every str cell, then "" and " " replaced by None
BasicCleaned(d) ==
    Frame(d.columns, d.index,
          [i \in DOMAIN d.rows |->
              [c \in d.columns |->
                  IF d.rows[i][c].t = "str" /\ Strip(d.rows[i][c].s) # <<>>
                  THEN StrVal(Strip(d.rows[i][c].s)) ELSE NoneVal]])

InitPipeline ==
    /\ machine = "pipeline"
    /\ pc = "start"
    /\ \E d \in [DOMAIN BaseRecords -> DescEntries] :
          rawRecords = [i \in DOMAIN BaseRecords |-> CaseRecord(BaseRecords[i], d[i])]
    /\ \E keep \in [DOMAIN BaseRecords -> BOOLEAN] :
          /\ \E i \in DOMAIN keep : keep[i]
          /\ sampleList = SamplesOfKept(rawRecords, keep, 1)
    /\ inferred = <<>>
    /\ typedRows = <<>>
    /\ xpathIn = <<>>
    /\ found = <<>>
    /\ record = Idle
    /\ mapping = Idle
    /\ colIdx = 0
    /\ row = Idle
    /\ raised = "none"
    /\ df = Idle
    /\ tables = Idle
    /\ SynthIdle
    /\ EnrichIdle
    /\ LastIdle

\* mapping = json.loads(_infer_types_from_samples(samples))
InferMapping ==
    /\ machine = "pipeline"
    /\ pc = "start"
    /\ inferred' = infer_types_from_samples(sampleList)
    /\ mapping' = Loads(inferred')
    /\ pc' = "inferred"
    /\ UNCHANGED <<machine, raised, record, colIdx, row, starVars, synthVars, enrichVars,
                   xpathIn, found, sampleList, rawRecords, typedRows, lastVars>>

\* rows = [apply_mapping_to_record(r, mapping) for r in records]; the frame
\* of the typed rows
ProjectRecords ==
    /\ machine = "pipeline"
    /\ pc = "inferred"
    /\ typedRows' = [i \in DOMAIN rawRecords |-> apply_mapping_to_record(rawRecords[i], mapping)]
    /\ df' = DataFrameOf(typedRows')
    /\ pc' = "framed"
    /\ UNCHANGED <<machine, raised, projVars, tables, synthVars, enrichVars,
                   xpathIn, found, sampleList, inferred, rawRecords, lastVars>>

\* main.py: the records read into a frame without a mapping, basic cleaning
ReadRecords ==
    /\ machine = "pipeline"
    /\ pc = "start"
    /\ df' = BasicCleaned(DataFrameOf([i \in DOMAIN rawRecords |-> StrItems(rawRecords[i])]))
    /\ pc' = "framed"
    /\ UNCHANGED <<machine, raised, projVars, tables, synthVars, enrichVars, laterVars, lastVars>>

\* df = apply_enhanced_cleaning(df)
CleanFrame ==
    /\ machine = "pipeline"
    /\ pc = "framed"
    /\ LET out == apply_enhanced_cleaning(df)
       IN  /\ cleaned' = out.frame
           /\ raised' = out.raised
           /\ pc' = IF out.raised = "none" THEN "done" ELSE "raised"
    /\ UNCHANGED <<machine, df, tables, projVars, synthVars, laterVars, lastVars,
                   cell, erow, ageOut, sexOut>>

NextPipeline == InferMapping \/ ProjectRecords \/ ReadRecords \/ CleanFrame

SpecPipeline == InitPipeline /\ [][NextPipeline]_vars

PipelineEnded == machine = "pipeline" /\ pc \in {"done", "raised"}

\* the run went through inference and projection
Projected == typedRows # <<>>

AgeTypedInt ==
    \E i \in DOMAIN mapping.columns :
        mapping.columns[i].name = T_age /\ mapping.columns[i].type = "int"

AgeProjected(i) == DictGet(typedRows[i], T_age)

\* the rows of the cleaned frame that come from the record with this ID
CleanedOf(id) ==
    {i \in DOMAIN cleaned.rows :
        \E c \in {"ID", "id"} \cap cleaned.columns :
            cleaned.rows[i][c] \in {StrVal(id), IntVal(IntParse(id))}}

(* C19: over the three records (1, 1, fracture), (2, 34 ans, fracture),    *)
(* (3, empty, tumeur masse), of which the third has no age cue in its      *)
(* text: local inference types Age as int, the Age of record 2 projects to *)
(* null, cleaning keeps record 2 with the age 34 recovered from its text   *)
(* and drops record 3.                                                     *)
C19_EndToEnd ==
    (PipelineEnded /\ rawRecords[3].items[Len(rawRecords[3].items)][2].text
                          # T_patient_de_34_ans) =>
        /\ Projected => (AgeTypedInt /\ AgeProjected(2) = NoneVal)
        /\ pc = "done"
        /\ \E i \in CleanedOf(T_2) : cleaned.rows[i]["Age"] = IntVal(34)
        /\ CleanedOf(T_3) = {}

\* the parts of the example the code does deliver: with record 1 alone
\* sampled Age is typed int and the Age of record 2 projects to null
C19_ProjectionPart ==
    (machine = "pipeline" /\ Projected /\ Len(sampleList) = Len(rawRecords[1].items)
        /\ sampleList[1] = <<T_ID, T_1>>) =>
        (AgeTypedInt /\ AgeProjected(2) = NoneVal /\ AgeProjected(1) = IntVal(1))

\* record 2 survives with the age 34 when a Description says so and the
\* frame is read without a mapping
C19_DirectRecovery ==
    /\ machine = "pipeline"
    /\ pc = "done"
    /\ ~Projected
    /\ \E i \in CleanedOf(T_2) : cleaned.rows[i]["Age"] = IntVal(34)
    /\ CleanedOf(T_3) = {}


-----------------------------------------------------------------------------
(* summarize_xml_structure *)

MaxTreeNodes == 4

\* a document ET.parse rejects: no root element comes out of it
Malformed == [tags |-> <<>>, depths |-> <<>>]

\* an element tree, its elements numbered in document order: the tag of each
\* and how deep it lies below the root; element 1 is the root
XmlTree(tags, depths) == [tags |-> tags, depths |-> depths]

IsTree(depths) ==
    /\ depths[1] = 0
    /\ \A i \in 2..Len(depths) : depths[i] >= 1 /\ depths[i] <= depths[i - 1] + 1

\* the element that holds element j
ParentOf(t, j) ==
    CHOOSE k \in 1..(j - 1) :
        /\ t.depths[k] = t.depths[j] - 1
        /\ \A m \in (k + 1)..(j - 1) : t.depths[m] >= t.depths[j]

\* list(elem): the children of element i, in document order
ChildrenOf(t, i) ==
    LET kids == {j \in (i + 1)..Len(t.tags) : ParentOf(t, j) = i}
    IN  [k \in 1..Cardinality(kids) |->
            CHOOSE x \in kids : Cardinality({y \in kids : y < x}) = k - 1]

\* if seen[0] >= max_nodes: return, read one node late
BudgetExhaustedLate(seenNodes, budget) == seenNodes > budget

\* if seen[0] >= max_nodes: return
BudgetExhausted(seenNodes, budget) == seenNodes >= budget

\* counts[(elem.tag, depth)] += 1 on a defaultdict(int)
Counted(c, key) == DictSet(c, key, IF DictHas(c, key) THEN DictGet(c, key) + 1 ELSE 1)

\* key=lambda x: (x[0][1], x[0][0]): depth first, then tag
KeyLess(a, b) == a[2] < b[2] \/ (a[2] = b[2] /\ TextLess(a[1], b[1]))

RECURSIVE InsertByKey(_, _)
InsertByKey(sorted, item) ==
    IF sorted = <<>> THEN <<item>>
    ELSE IF KeyLess(item[1], Head(sorted)[1]) THEN <<item>> \o sorted
    ELSE <<Head(sorted)>> \o InsertByKey(Tail(sorted), item)

\* sorted(counts.items(), key=...)
RECURSIVE SortedCounts(_)
SortedCounts(items) ==
    IF items = <<>> THEN <<>>
    ELSE InsertByKey(SortedCounts(Slice(items, 1, Len(items) - 1)), items[Len(items)])

\* the lines of the summary
SummaryLines(c) ==
    LET items == SortedCounts(c)
    IN  [i \in DOMAIN items |->
            SummaryLine(items[i][1][2], items[i][1][1], <<IndexText(items[i][2])>>)]

\* explore(root) run to its end: the counts dict it leaves
RECURSIVE ExploreAll(_, _, _, _, _)
ExploreAll(t, pending, seenNodes, c, budget) ==
    IF pending = <<>> THEN c
    ELSE IF BudgetExhausted(seenNodes, budget)
         THEN ExploreAll(t, Tail(pending), seenNodes, c, budget)
    ELSE LET elem == Head(pending)[1]
             depth == Head(pending)[2]
             kids == ChildrenOf(t, elem)
         IN  ExploreAll(t, [k \in DOMAIN kids |-> <<kids[k], depth + 1>>] \o Tail(pending),
                        seenNodes + 1, Counted(c, <<t.tags[elem], depth>>), budget)

\* the lines summarize_xml_structure returns
summarize_xml_structure(t, budget) ==
    IF t = Malformed THEN <<ErrorLine>>
    ELSE SummaryLines(ExploreAll(t, << <<1, 0>> >>, 0, <<>>, budget))

XmlTags == {T_ID, T_age}

InitSummarize ==
    /\ machine = "summarize"
    /\ pc = "start"
    /\ \/ xmlTree = Malformed
       \/ \E n \in 1..MaxTreeNodes :
             \E tags \in [1..n -> XmlTags], depths \in [1..n -> 0..(n - 1)] :
                IsTree(depths) /\ xmlTree = XmlTree(tags, depths)
    /\ maxNodes \in 0..(MaxTreeNodes + 1)
    /\ walk = <<>>
    /\ seen = 0
    /\ counts = <<>>
    /\ outline = <<>>
    /\ raised = "none"
    /\ record = Idle
    /\ mapping = Idle
    /\ colIdx = 0
    /\ row = Idle
    /\ df = Idle
    /\ tables = Idle
    /\ SynthIdle
    /\ LaterIdle
    /\ EnrichIdle
    /\ IngestIdle
    /\ OrchIdle

\* except Exception as e: return f"Erreur lors du parsing XML : {e}"
ParseFails ==
    /\ machine = "summarize"
    /\ pc = "start"
    /\ xmlTree = Malformed
    /\ outline' = <<ErrorLine>>
    /\ pc' = "done"
    /\ UNCHANGED <<machine, raised, projVars, starVars, synthVars, enrichVars, laterVars,
                   ingestVars, orchVars, xmlTree, maxNodes, walk, seen, counts>>

\* root = tree.getroot(); explore(root)
ParseTree ==
    /\ machine = "summarize"
    /\ pc = "start"
    /\ xmlTree # Malformed
    /\ walk' = << <<1, 0>> >>
    /\ pc' = "explore"
    /\ UNCHANGED <<machine, raised, projVars, starVars, synthVars, enrichVars, laterVars,
                   ingestVars, orchVars, xmlTree, maxNodes, seen, counts, outline>>

\* a call of explore within the budget: count the element, then its children
ExploreCount ==
    /\ machine = "summarize"
    /\ pc = "explore"
    /\ walk # <<>>
    /\ ~BudgetExhausted(seen, maxNodes)
    /\ LET elem == Head(walk)[1]
           depth == Head(walk)[2]
           kids == ChildrenOf(xmlTree, elem)
       IN  /\ counts' = Counted(counts, <<xmlTree.tags[elem], depth>>)
           /\ walk' = [k \in DOMAIN kids |-> <<kids[k], depth + 1>>] \o Tail(walk)
    /\ seen' = seen + 1
    /\ UNCHANGED <<machine, pc, raised, projVars, starVars, synthVars, enrichVars, laterVars,
                   ingestVars, orchVars, xmlTree, maxNodes, outline>>

\* a call of explore once the budget is used up: return at once
ExploreReturn ==
    /\ machine = "summarize"
    /\ pc = "explore"
    /\ walk # <<>>
    /\ BudgetExhausted(seen, maxNodes)
    /\ walk' = Tail(walk)
    /\ UNCHANGED <<machine, pc, raised, projVars, starVars, synthVars, enrichVars, laterVars,
                   ingestVars, orchVars, xmlTree, maxNodes, seen, counts, outline>>

\* lines = [...]; return "\n".join(lines)
FormatSummary ==
    /\ machine = "summarize"
    /\ pc = "explore"
    /\ walk = <<>>
    /\ outline' = SummaryLines(counts)
    /\ pc' = "done"
    /\ UNCHANGED <<machine, raised, projVars, starVars, synthVars, enrichVars, laterVars,
                   ingestVars, orchVars, xmlTree, maxNodes, walk, seen, counts>>

NextSummarize == ParseFails \/ ParseTree \/ ExploreCount \/ ExploreReturn \/ FormatSummary

SpecSummarize == InitSummarize /\ [][NextSummarize]_vars

SummarizeDone == machine = "summarize" /\ pc = "done"

TreeSize == Len(xmlTree.tags)

Budgeted == IF TreeSize < maxNodes THEN TreeSize ELSE maxNodes

\* how many of the first k elements in document order have this tag and depth
CensusOf(key, k) ==
    Cardinality({i \in 1..k : xmlTree.tags[i] = key[1] /\ xmlTree.depths[i] = key[2]})

CensusKeys(k) == {<<xmlTree.tags[i], xmlTree.depths[i]>> : i \in 1..k}

RECURSIVE SumCounts(_)
SumCounts(c) == IF c = <<>> THEN 0 ELSE Head(c)[2] + SumCounts(Tail(c))

(* C23: summarize_xml_structure with node budget B over a tree of N nodes  *)
(* counts exactly the first min(N, B) nodes of the depth-first pre-order   *)
(* walk, so the counts over all (tag, depth) pairs sum to min(N, B); using *)
(* up the budget raises nothing; and the output has one line per counted   *)
(* (tag, depth) pair, sorted by depth and then by tag.                     *)
C23_BudgetedCensus ==
    (SummarizeDone /\ xmlTree # Malformed) =>
        /\ raised = "none"
        /\ seen = Budgeted
        /\ SumCounts(counts) = Budgeted
        /\ {counts[i][1] : i \in DOMAIN counts} = CensusKeys(Budgeted)
        /\ \A i, j \in DOMAIN counts : counts[i][1] = counts[j][1] => i = j
        /\ \A i \in DOMAIN counts : counts[i][2] = CensusOf(counts[i][1], Budgeted)
        /\ Len(outline) = Cardinality(CensusKeys(Budgeted))
        /\ \A key \in CensusKeys(Budgeted) :
              LET before == Cardinality({k \in CensusKeys(Budgeted) : KeyLess(k, key)})
              IN  outline[before + 1]
                     = SummaryLine(key[2], key[1], <<IndexText(CensusOf(key, Budgeted))>>)

\* four elements, a budget of three: the root, its first child and that
\* child's child are counted, the root's second child is not
C23_Witness ==
    /\ SummarizeDone
    /\ xmlTree # Malformed
    /\ TreeSize = 4
    /\ xmlTree.depths = <<0, 1, 2, 1>>
    /\ xmlTree.tags[2] = T_age /\ xmlTree.tags[3] = T_ID /\ xmlTree.tags[4] = T_ID
    /\ maxNodes = 3
    /\ Len(outline) = 3
    /\ outline[3] = SummaryLine(2, T_ID, <<"1">>)


\* the walk in steps and the function as a whole give the same lines
SummaryAgrees == SummarizeDone => outline = summarize_xml_structure(xmlTree, maxNodes)

-----------------------------------------------------------------------------
(* main.py: the structure summary of the first document, then the loop     *)
(* that reads every document into a row                                    *)

MaxDocs == 2

\* max_nodes: int = 5000
DefaultMaxNodes == 5000

T_QCMs == <<"Q", "C", "M", "s">>
T_SourceFile == <<"S", "o", "u", "r", "c", "e", "F", "i", "l", "e">>

\* xmltodict.parse raised on the document
Unparsed == [kind |-> "raises", text |-> <<>>, items |-> <<>>]

\* what data.get("CASIMAGE_CASE", {}) is for a document: nothing, for a
\* document xmltodict rejects; None for an empty root element; {} for a
\* document with another root; the dict of the case
CaseBodies == {Unparsed, NoneNode, MapNode(<<>>), CaseRecord(BaseRecords[2], <<>>)}

\* what ET.parse gives for a document
CaseTrees == {Malformed, XmlTree(<<T_ID, T_age>>, <<0, 1>>)}

Document(name, etree, body) == [file |-> name, etree |-> etree, body |-> body]

\* the body of the try block with no except branch around it
LoopStepNoExcept(doc, rows) ==
    IF doc.body.kind # "map"
    THEN [rows |-> rows, raised |-> "Exception"]
    ELSE [rows |-> Append(rows, DictSet(DictSet(StrItems(doc.body), T_QCMs, StrVal(<<>>)),
                                        T_SourceFile, StrVal(doc.file))),
          raised |-> "none"]

\* one iteration of the loop: the try block appends the record; parse and
\* .items() raise on anything but a dict, and except Exception only prints
LoopStep(doc, rows) ==
    IF doc.body.kind # "map"
    THEN [rows |-> rows, raised |-> "none"]
    ELSE [rows |-> Append(rows, DictSet(DictSet(StrItems(doc.body), T_QCMs, StrVal(<<>>)),
                                        T_SourceFile, StrVal(doc.file))),
          raised |-> "none"]

\* xml_files is not empty: main.py exits before when it is
InitIngest ==
    /\ machine = "ingest"
    /\ pc = "start"
    /\ \E n \in 1..MaxDocs :
          \E trees \in [1..n -> CaseTrees], bodies \in [1..n -> CaseBodies] :
             xmlFiles = [i \in 1..n |-> Document(<<IndexText(i)>>, trees[i], bodies[i])]
    /\ fileIdx = 1
    /\ ingested = <<>>
    /\ raised = "none"
    /\ record = Idle
    /\ mapping = Idle
    /\ colIdx = 0
    /\ row = Idle
    /\ df = Idle
    /\ tables = Idle
    /\ SynthIdle
    /\ LaterIdle
    /\ EnrichIdle
    /\ SumIdle
    /\ OrchIdle

\* summary = summarize_xml_structure(xml_files[0])
SummarizeSample ==
    /\ machine = "ingest"
    /\ pc = "start"
    /\ outline' = summarize_xml_structure(xmlFiles[1].etree, DefaultMaxNodes)
    /\ pc' = "loop"
    /\ UNCHANGED <<machine, raised, projVars, starVars, synthVars, enrichVars, laterVars,
                   ingestVars, orchVars, xmlTree, maxNodes, walk, seen, counts>>

\* for path in xml_files: try: ... rows.append(record) except Exception: print
ReadDocument ==
    /\ machine = "ingest"
    /\ pc = "loop"
    /\ fileIdx <= Len(xmlFiles)
    /\ LET out == LoopStep(xmlFiles[fileIdx], ingested)
       IN  /\ ingested' = out.rows
           /\ raised' = out.raised
           /\ pc' = IF out.raised = "none" THEN "loop" ELSE "raised"
    /\ fileIdx' = fileIdx + 1
    /\ UNCHANGED <<machine, projVars, starVars, synthVars, enrichVars, laterVars,
                   sumVars, orchVars, xmlFiles>>

\* if not rows: raise SystemExit(...)
NoRowsExit ==
    /\ machine = "ingest"
    /\ pc = "loop"
    /\ fileIdx > Len(xmlFiles)
    /\ ingested = <<>>
    /\ raised' = "SystemExit"
    /\ pc' = "raised"
    /\ UNCHANGED <<machine, projVars, starVars, synthVars, enrichVars, laterVars,
                   sumVars, orchVars, ingestVars>>

\* df = pd.DataFrame(rows)
RowsRead ==
    /\ machine = "ingest"
    /\ pc = "loop"
    /\ fileIdx > Len(xmlFiles)
    /\ ingested # <<>>
    /\ pc' = "done"
    /\ UNCHANGED <<machine, raised, projVars, starVars, synthVars, enrichVars, laterVars,
                   sumVars, orchVars, ingestVars>>

NextIngest == SummarizeSample \/ ReadDocument \/ NoRowsExit \/ RowsRead

SpecIngest == InitIngest /\ [][NextIngest]_vars

IngestEnded == machine = "ingest" /\ pc \in {"done", "raised"}

\* the documents among the first k whose parsing fails
FailedDocs(k) == {i \in 1..k : xmlFiles[i].body = Unparsed}

\* the file names of the rows read so far
SourceFiles == [i \in DOMAIN ingested |-> DictGet(ingested[i], T_SourceFile).s]

\* the names of the first k documents that give a dict, in order
RECURSIVE ReadableFiles(_)
ReadableFiles(k) ==
    IF k = 0 THEN <<>>
    ELSE ReadableFiles(k - 1)
         \o (IF xmlFiles[k].body.kind = "map" THEN <<xmlFiles[k].file>> ELSE <<>>)

LoopKeepsGoing ==
    /\ machine = "ingest" => raised \in {"none", "SystemExit"}
    /\ (machine = "ingest" /\ pc # "start") =>
          /\ SourceFiles = ReadableFiles(fileIdx - 1)
          /\ \A i \in FailedDocs(fileIdx - 1) : \A j \in DOMAIN SourceFiles :
                SourceFiles[j] # xmlFiles[i].file
          /\ xmlFiles[1].etree = Malformed => outline = <<ErrorLine>>
    /\ IngestEnded => fileIdx = Len(xmlFiles) + 1

(* C25 as stated: a malformed document never aborts the batch: a document  *)
(* whose parsing fails contributes no row, every other document is still   *)
(* processed in order, the run goes on past the loop, and                  *)
(* summarize_xml_structure on a malformed document returns without         *)
(* raising.                                                                *)
C25_NeverAborts ==
    /\ LoopKeepsGoing
    /\ machine = "ingest" => raised = "none"

(* C25 as amended: the same, except that the run ends with SystemExit      *)
(* after the loop exactly when no document at all gave a row.              *)
C25_AbortsOnlyWithoutRows ==
    /\ LoopKeepsGoing
    /\ IngestEnded => ((raised = "SystemExit") <=> (ingested = <<>>))
    /\ IngestEnded => ((pc = "done") <=> (raised = "none"))

\* the first document is malformed for both parsers, the second is read
C25_Witness ==
    /\ machine = "ingest"
    /\ pc = "done"
    /\ Len(xmlFiles) = 2
    /\ xmlFiles[1].body = Unparsed
    /\ xmlFiles[1].etree = Malformed
    /\ outline = <<ErrorLine>>
    /\ SourceFiles = <<xmlFiles[2].file>>


-----------------------------------------------------------------------------
(* run_pipeline.py: the orchestrator *)

Step(script, allow_fail) == [script |-> script, allow_fail |-> allow_fail]

\* the calls of run, in the order of the file
Steps ==
    << Step("main.py", FALSE),
       Step("clean_data.py", FALSE),
       Step("eda_casimage.py", TRUE),
       Step("analytics.py", TRUE) >>

Dashboard == "eda_dashboard.py"

Scripts == {Steps[i].script : i \in DOMAIN Steps} \cup {Dashboard}

\* what launching a script leads to: it exits with 0, it exits with another
\* status, or its file is not there
Outcomes == {"ok", "fails", "missing"}

\* run() leaves through an exception for every step that did not succeed
RunRaisesAlways(outcome, allow_fail) == outcome # "ok"

\* run() leaves through an exception: raise FileNotFoundError / raise e,
\* both under if not allow_fail
RunRaises(outcome, allow_fail) == outcome # "ok" /\ ~allow_fail

\* run() gets as far as subprocess.run: the script file exists
RunLaunches(outcome) == outcome # "missing"

InitOrchestrate ==
    /\ machine = "orchestrate"
    /\ pc = "steps"
    /\ outcomes \in [Scripts -> Outcomes]
    /\ stepIdx = 1
    /\ started = <<>>
    /\ raised = "none"
    /\ record = Idle
    /\ mapping = Idle
    /\ colIdx = 0
    /\ row = Idle
    /\ df = Idle
    /\ tables = Idle
    /\ SynthIdle
    /\ LaterIdle
    /\ EnrichIdle
    /\ SumIdle
    /\ IngestIdle

\* run(step, script, allow_fail) for the next step; an exception it raises
\* is caught by the except Exception of the main block, which ends the run
RunStep ==
    /\ machine = "orchestrate"
    /\ pc = "steps"
    /\ stepIdx <= Len(Steps)
    /\ LET step == Steps[stepIdx]
           outcome == outcomes[step.script]
       IN  /\ started' = IF RunLaunches(outcome) THEN Append(started, step.script)
                         ELSE started
           /\ pc' = IF RunRaises(outcome, step.allow_fail) THEN "stopped" ELSE "steps"
    /\ stepIdx' = stepIdx + 1
    /\ UNCHANGED <<machine, raised, projVars, starVars, synthVars, enrichVars, laterVars,
                   sumVars, ingestVars, outcomes>>

\* subprocess.run([sys.executable, .../eda_dashboard.py], check=False)
LaunchDashboard ==
    /\ machine = "orchestrate"
    /\ pc = "steps"
    /\ stepIdx > Len(Steps)
    /\ started' = Append(started, Dashboard)
    /\ pc' = "done"
    /\ UNCHANGED <<machine, raised, projVars, starVars, synthVars, enrichVars, laterVars,
                   sumVars, ingestVars, outcomes, stepIdx>>

NextOrchestrate == RunStep \/ LaunchDashboard

SpecOrchestrate == InitOrchestrate /\ [][NextOrchestrate]_vars

OrchestrateEnded == machine = "orchestrate" /\ pc \in {"done", "stopped"}

\* the order of the file
ScriptOrder ==
    <<"main.py", "clean_data.py", "eda_casimage.py", "analytics.py", "eda_dashboard.py">>

PlaceOf(script) == CHOOSE i \in DOMAIN ScriptOrder : ScriptOrder[i] = script

\* the two steps that must succeed
MandatoryOk == outcomes["main.py"] = "ok" /\ outcomes["clean_data.py"] = "ok"

(* C26: the orchestrator launches its scripts in the order main.py,        *)
(* clean_data.py, eda_casimage.py, analytics.py, dashboard; when main.py   *)
(* or clean_data.py fails or is missing nothing after it is launched, the  *)
(* dashboard included; when eda_casimage.py or analytics.py fails or is    *)
(* missing the steps after it are launched all the same.                   *)
C26_StepOrderAndStops ==
    machine = "orchestrate" =>
        /\ raised = "none"
        /\ \A i, j \in DOMAIN started :
              i < j => PlaceOf(started[i]) < PlaceOf(started[j])
        /\ \A i \in DOMAIN started : \A k \in 1..2 :
              (k < PlaceOf(started[i])) => outcomes[ScriptOrder[k]] = "ok"
        /\ OrchestrateEnded =>
              /\ (pc = "done") <=> MandatoryOk
              /\ MandatoryOk =>
                    /\ \A k \in 3..4 :
                          (ScriptOrder[k] \in Range(started))
                             <=> (outcomes[ScriptOrder[k]] # "missing")
                    /\ Dashboard \in Range(started)
              /\ outcomes["main.py"] # "ok" =>
                    started = IF outcomes["main.py"] = "missing" THEN <<>>
                              ELSE <<"main.py">>

\* eda_casimage.py fails, analytics.py is missing, and the dashboard is
\* launched after main.py, clean_data.py and eda_casimage.py
C26_Witness ==
    /\ machine = "orchestrate"
    /\ pc = "done"
    /\ outcomes["eda_casimage.py"] = "fails"
    /\ outcomes["analytics.py"] = "missing"
    /\ started = <<"main.py", "clean_data.py", "eda_casimage.py", "eda_dashboard.py">>

====
